---- MODULE Spec2Model ----
(***************************************************************************)
(* The analysis-run pipeline of src/djangoapp: TimeAnalysis rows, the      *)
(* derived-state store (Day, Message, Location, WebsiteAnalysis,           *)
(* PersonAnalysis, PlaceAnalysis) and the request handlers that start a    *)
(* run (TimeAnalysis.save on creation, TimeAnalysisViewSet.rerun_analysis).*)
(* perform_sentiment_analysis is split at its database operations, so that *)
(* two request handlers can interleave (specification Spec); SpecSeq is    *)
(* the same program with one request handled at a time.                    *)
(***************************************************************************)
EXTENDS Integers, Sequences, FiniteSets, TLC

\* ---------------------------------------------------------------- bounds
MaxTA == 2
MaxRuns == 2
MaxDate == 5
MaxMessages == 27
MaxPages == 2

\* ------------------------------------------------------ program constants
batch_size == 25
time_threshold == 60
page_size == 1000

Workers == {"w1", "w2"}
TAs == 1..MaxTA
Dates == 1..MaxDate

\* The analysis window start_date..end_date of every TimeAnalysis.
start_date == 1
end_date == MaxDate

\* ------------------------------------------------------------ the inputs
\* What one run finds outside the program: the environment variables, the
\* Supabase tables and the answers of AWS Comprehend.
\*   first : the messages of date 1 ("ok" one message that is scored,
\*           "partial" two messages, the second one fails scoring, "fail" one
\*           message that fails scoring, "down" one message, the batch call
\*           raises)
\*   rest  : the messages of the other dates ("ok" or "none")
\*   web   : browser history ("none", "site": one domain visited on dates
\*           1..3, "long": the same with a domain longer than the 200
\*           characters of WebsiteAnalysis.domain)
\*   people: the messages of dates 1 and 2 go to contact "alice"
\*   places: location_history yields one cluster
Kinds == {"ok", "partial", "fail", "down"}

AllInputs == [first : Kinds, rest : {"ok", "none"}, web : {"none", "site", "long"},
              people : BOOLEAN, places : BOOLEAN]

\* Everything is there and every message is scored.
Baseline == [first |-> "ok", rest |-> "ok", web |-> "site",
             people |-> TRUE, places |-> TRUE]

\* Nothing is there, and the only message fails scoring.
NoInput == [first |-> "fail", rest |-> "none", web |-> "none",
            people |-> FALSE, places |-> FALSE]

Deviations(e) ==
    Cardinality({f \in {"first", "rest", "web", "people", "places"} : e[f] # Baseline[f]})

\* The inputs of a run: the baseline, every input that differs from it in
\* one respect, and the empty input.
Inputs == {e \in AllInputs : Deviations(e) <= 1} \cup {NoInput}

\* The inputs of the runs that are interleaved: few messages, no traces.
ConcInputs == {e \in AllInputs : e.rest = "none" /\ e.web = "none" /\ ~e.people
                                  /\ ~e.places /\ e.first \in {"ok", "partial"}}

Configs == {"ok", "no_supabase", "no_aws", "bad_url"}

VARIABLES status, error_message, days, messages, locations, websites,
          persons, places, runs, pc, ta, run, inp, todo, last, snap,
          ingest, correlation, clustering, presence, trail, fetch

\* The state of the request handlers and of the store.
pipeline == <<status, error_message, days, messages, locations, websites,
              persons, places, runs, pc, ta, run, inp, todo, last, snap>>

\* The state of the components that are run on their own: the ingestion of
\* one date, one correlation, one clustering, the presence of one place, the
\* stay points of one trail, one paginated fetch.
parts == <<ingest, correlation, clustering, presence, trail, fetch>>

vars == <<pipeline, parts>>

store == <<days, messages, locations, websites, persons, places>>
locals == <<ta, run, inp, todo>>

\* --------------------------------------------------------------- helpers
Min(a, b) == IF a < b THEN a ELSE b

RECURSIVE SumSeq(_)
SumSeq(s) == IF s = <<>> THEN 0 ELSE Head(s) + SumSeq(Tail(s))

RECURSIVE Flatten(_)
Flatten(ss) == IF ss = <<>> THEN <<>> ELSE Head(ss) \o Flatten(Tail(ss))

RECURSIVE Ascending(_)
Ascending(S) ==
    IF S = {} THEN <<>>
    ELSE LET m == CHOOSE x \in S : \A y \in S : x <= y
         IN <<m>> \o Ascending(S \ {m})

\* ------------------------------------------------- the message source
Kind(e, d) == IF d = 1 THEN e.first ELSE e.rest

Contact(e, d) == IF e.people /\ d <= 2 THEN "alice" ELSE ""

\* daily_messages[date_str]: the accepted messages of one date, in fetch
\* order (_fetch_imessages, _fetch_whatsapp_messages).
message_list(e, d) ==
    LET m(i) == [text |-> <<d, i>>, contact |-> Contact(e, d)]
    IN CASE Kind(e, d) = "none" -> <<>>
         [] Kind(e, d) = "partial" -> <<m(1), m(2)>>
         [] OTHER -> <<m(1)>>

\* The keys of daily_messages: the dates that have at least one message.
daily_messages(e) == {d \in Dates : message_list(e, d) # <<>>}

\* --------------------------------------------------- the sentiment oracle
\* A confidence is an integer number of hundredths (0..100 for [0, 1]) and a
\* score an integer number of two-hundredths (-200..200 for [-1, 1]), so that
\* half of a difference of confidences is a whole number.
Labels == {"POSITIVE", "NEGATIVE", "NEUTRAL", "MIXED"}

\* The answer of batch_detect_sentiment for one text: odd dates are happy
\* days.
Answer(e, text) ==
    LET d == text[1]
        i == text[2]
    IN [ok |-> \/ Kind(e, d) \in {"ok", "down"}
               \/ (Kind(e, d) = "partial" /\ i = 1),
        Sentiment |-> IF d % 2 = 1 THEN "POSITIVE" ELSE "NEGATIVE",
        Positive |-> IF d % 2 = 1 THEN 55 ELSE 5,
        Negative |-> IF d % 2 = 1 THEN 5 ELSE 55]

OracleRaises(e, d) == Kind(e, d) = "down"

\* The response of one batch_detect_sentiment call of a run: ResultList holds
\* the scored items with their Index in the batch.
Response(e, d, text_list) ==
    [raises |-> OracleRaises(e, d),
     ResultList |->
        SelectSeq([j \in 1..Len(text_list) |->
                      [ok |-> Answer(e, text_list[j]).ok, Index |-> j - 1,
                       Sentiment |-> Answer(e, text_list[j]).Sentiment,
                       Positive |-> Answer(e, text_list[j]).Positive,
                       Negative |-> Answer(e, text_list[j]).Negative]],
                  LAMBDA r : r.ok)]

None == [ok |-> FALSE, score |-> 0]

\* A mapping that does not halve the score of a MIXED item.
sentiment_score_unhalved(result) == 2 * (result.Positive - result.Negative)

\* Lines 787-804: the score of one item of ResultList, by its label.
sentiment_score(result) ==
    LET positive_score == result.Positive
        negative_score == result.Negative
    IN CASE result.Sentiment = "POSITIVE" -> 2 * (positive_score - negative_score)
         [] result.Sentiment = "NEGATIVE" -> -(2 * (negative_score - positive_score))
         [] result.Sentiment = "NEUTRAL" -> 2 * (positive_score - negative_score)
         [] OTHER -> positive_score - negative_score

\* A batch whose scores are all dropped when one item has no result.
analyze_sentiment_batch_all_or_nothing(text_list, response) ==
    [j \in 1..Len(text_list) |->
        IF response.raises \/ Len(response.ResultList) < Len(text_list)
        THEN None
        ELSE [ok |-> TRUE, score |-> sentiment_score(response.ResultList[j])]]

\* _analyze_sentiment_batch: results = [None] * len(text_list), then the
\* score of every item of ResultList at its Index; [None] * len(text_list)
\* when the call (or an Index out of range) raises.
analyze_sentiment_batch(text_list, response) ==
    LET n == Len(text_list)
        rl == response.ResultList
        at(j) == {k \in 1..Len(rl) : rl[k].Index = j - 1}
        written(j) == CHOOSE k \in at(j) : \A m \in at(j) : m <= k
    IN IF response.raises \/ \E k \in 1..Len(rl) : rl[k].Index >= n
       THEN [j \in 1..n |-> None]
       ELSE [j \in 1..n |->
                IF at(j) = {} THEN None
                ELSE [ok |-> TRUE, score |-> sentiment_score(rl[written(j)])]]

\* range(0, len(message_list), batch_size) and message_list[i : i + batch_size]
Batches(list) ==
    LET n == Len(list)
        k == (n + batch_size - 1) \div batch_size
    IN [b \in 1..k |-> SubSeq(list, (b - 1) * batch_size + 1, Min(b * batch_size, n))]

\* ------------------------------------------------------------ the store
\* Every row carries the number of the run that created it; it stands for
\* the primary key and the created_at of the row.
DayRow(t, d, r, s, n) ==
    [ta |-> t, date |-> d, run |-> r, sentiment |-> s, message_count |-> n]

\* A database without the uniqueness constraint on Day.
DayCreateUnconstrained(t, d) == TRUE

\* Day.Meta.unique_together: Day.objects.create raises IntegrityError when a
\* Day of the same (time_analysis, date) exists.
DayCreateOK(t, d) == ~\E r \in days : r.ta = t /\ r.date = d

\* The clusters process_location_data returns for the fetched fixes.
clusters(e) ==
    IF e.places
    THEN {[k |-> 1, visit_count |-> 2, total_time_minutes |-> 90,
           first_visit |-> 1, last_visit |-> 2]}
    ELSE {}

\* days_with_sentiment: Day.objects.filter(time_analysis=self, ...)
days_with_sentiment(t) == {r \in days : r.ta = t}

\* A website pass that returns without deleting the old rows.
KeepWebsiteAnalysis(t) == websites

\* A person pass that returns without deleting the old rows.
KeepPersonAnalysis(t) == persons

\* The three "Clear existing ... records for this TimeAnalysis" deletions:
\* the rows that are left.
ClearWebsiteAnalysis(t) == {r \in websites : r.ta # t}
ClearPersonAnalysis(t) == {r \in persons : r.ta # t}
ClearPlaceAnalysis(t) == {r \in places : r.ta # t}

\* A deletion scoped to the TimeAnalysis that is run.
DaysOfOthers(t) == {r \in days : r.ta # t}

\* Message.objects.all().delete(), Day.objects.all().delete() and
\* Location.objects.all().delete() at the start of the run of TimeAnalysis
\* t: the rows that are left.
DaysAfterClear(t) == {}
MessagesAfterClear(t) == {}
LocationsAfterClear(t) == {}

\* PlaceAnalysis.location is a ForeignKey with on_delete=CASCADE.
CascadePlaces(locs) == {r \in places : \E l \in locs : r.location = <<l.run, l.k>>}

\* ------------------------------------------------ the correlation passes
\* A counting loop that counts every day as a day without the entity.
PresenceAbsentEveryDay(dws, present) ==
    [present |-> Cardinality({r \in dws : r.date \in present}),
     absent |-> Cardinality(dws)]

\* The counting loop shared by _calculate_domain_correlation,
\* _calculate_person_correlation and _calculate_place_correlation: a day
\* with sentiment counts as present or else as absent.
\* The coefficient itself is computed in SpecCorr; the sentiments of the runs
\* modelled here are multiples of 0.25, on which the float arithmetic of
\* _calculate_pearson_correlation is exact and never raises.
Presence(dws, present) ==
    [present |-> Cardinality({r \in dws : r.date \in present}),
     absent |-> Cardinality({r \in dws : r.date \notin present})]

calculate_domain_correlation(dws, present) ==
    LET c == Presence(dws, present)
        total_visits == c.present
    IN [ok |-> ~(c.present < 2 \/ c.absent < 2 \/ total_visits < 3),
        days_visited |-> c.present, days_not_visited |-> c.absent,
        total_visits |-> total_visits]

calculate_person_correlation(dws, present) ==
    LET c == Presence(dws, present)
    IN [ok |-> ~(c.present < 2 \/ c.absent < 2),
        days_interacted |-> c.present, days_not_interacted |-> c.absent,
        total_messages |-> c.present]

calculate_place_correlation(dws, present, location) ==
    LET c == Presence(dws, present)
    IN [ok |-> ~(c.present < 2 \/ c.absent < 2),
        days_present |-> c.present, days_not_present |-> c.absent,
        total_visits |-> location.visit_count]

\* daily_website_visits, as the set of dates on which the domain was visited.
daily_website_visits(e) ==
    IF e.web = "none" THEN {} ELSE {d \in Dates : d <= 3}

all_domains(e) == IF e.web = "none" THEN {} ELSE {e.web}

\* WebsiteAnalysis.domain is a CharField(max_length=200).
DomainFits(domain) == domain # "long"

\* _normalize_contact_name
skip_contacts == {"unknown", "me", "", "system", "group", "chat", "whatsapp",
                  "imessage", "sms", "mms"}

normalize_contact_name(contact) == IF contact \in skip_contacts THEN "" ELSE contact

\* _extract_person_interactions: the dates on which contact c was written to.
daily_person_interactions(e, c) ==
    {d \in daily_messages(e) :
        \E j \in 1..Len(message_list(e, d)) :
            /\ message_list(e, d)[j].contact \notin {"", "Unknown"}
            /\ normalize_contact_name(message_list(e, d)[j].contact) = c}

all_contacts(e) ==
    {c \in {normalize_contact_name(Contact(e, d)) : d \in daily_messages(e)} :
        c # "" /\ daily_person_interactions(e, c) # {}}

\* _extract_daily_place_presence: the dates marked for one Location.
daily_place_presence(location) ==
    LET first_date == location.first_visit
        last_date == location.last_visit
        span == last_date - first_date + 1
        total_days_in_period == IF span <= 0 THEN 1 ELSE span
        days_to_mark == Min(location.visit_count, total_days_in_period)
    IN IF location.total_time_minutes >= time_threshold
       THEN {first_date + ((i * total_days_in_period) \div days_to_mark) :
                 i \in 0..(days_to_mark - 1)}
            \cap {d \in Int : start_date <= d /\ d <= end_date}
       ELSE {}

\* What a completed run leaves for one TimeAnalysis, without row ids and
\* creation stamps, and with the number of rows of each kind.
Result(t, ds, ls, ws, ps, pls) ==
    [days |-> {<<r.date, r.sentiment, r.message_count>> : r \in {x \in ds : x.ta = t}},
     nDays |-> Cardinality({x \in ds : x.ta = t}),
     locations |-> {<<r.k, r.visit_count, r.total_time_minutes, r.first_visit,
                      r.last_visit>> : r \in {x \in ls : x.ta = t}},
     nLocations |-> Cardinality({x \in ls : x.ta = t}),
     websites |-> {<<r.domain, r.days_visited, r.days_not_visited, r.total_visits>> :
                      r \in {x \in ws : x.ta = t}},
     nWebsites |-> Cardinality({x \in ws : x.ta = t}),
     persons |-> {<<r.contact_name, r.days_interacted, r.days_not_interacted>> :
                      r \in {x \in ps : x.ta = t}},
     nPersons |-> Cardinality({x \in ps : x.ta = t}),
     places |-> {<<r.location[2], r.days_present, r.days_not_present, r.total_visits>> :
                      r \in {x \in pls : x.ta = t}},
     nPlaces |-> Cardinality({x \in pls : x.ta = t})]

NoResult == Result(0, {}, {}, {}, {}, {})

\* --------------------------------------------------- the Day of a date
\* A Day that is never deleted.
DayAlwaysKept(day_sentiments) == TRUE

\* A Day that gets the sum of its scores.
sum_of_sentiments(day_sentiments) == <<SumSeq(day_sentiments), 1>>

\* Line 219: sum(day_sentiments) / len(day_sentiments), as the pair of the
\* sum and the number it is divided by.
avg_sentiment(day_sentiments) == <<SumSeq(day_sentiments), Len(day_sentiments)>>

\* if day_sentiments: the Day is kept (and gets its average) when at least
\* one Message was stored, else it is deleted.
DayKept(day_sentiments) == day_sentiments # <<>>

\* ------------------------------------------- the ingestion of one date
\* The messages of one date and what the oracle answers: reply[j] is the
\* item of ResultList for message j (Missing: the item is in ErrorList),
\* raise the batches whose call raises, reversed the order of ResultList.
Missing == [Sentiment |-> "", Positive |-> 0, Negative |-> 0]

Confidences == {0, 5, 90, 100}

Replies(C) == [Sentiment : Labels, Positive : C, Negative : C]

\* Dates with one message and every answer of the oracle, and dates with two
\* messages, answered in either order.
ShortDates ==
    {[reply |-> r, raise |-> {}, reversed |-> FALSE] :
        r \in [1..1 -> Replies(Confidences) \cup {Missing}]}
    \cup
    {[reply |-> r, raise |-> {}, reversed |-> b] :
        r \in [1..2 -> Replies({5, 90}) \cup {Missing}], b \in BOOLEAN}

\* The answer to the j-th message of a longer date.
Canon(j) ==
    [Sentiment |-> CASE j % 4 = 0 -> "POSITIVE" [] j % 4 = 1 -> "NEGATIVE"
                     [] j % 4 = 2 -> "NEUTRAL" [] OTHER -> "MIXED",
     Positive |-> (37 * j) % 101, Negative |-> (11 * j) % 101]

\* Dates with up to MaxMessages messages, of which at most one fails scoring
\* and at most one batch raises.
LongDates ==
    {[reply |-> [j \in 1..n |-> IF j = x THEN Missing ELSE Canon(j)],
      raise |-> IF b = 0 THEN {} ELSE {b}, reversed |-> FALSE] :
        n \in 1..MaxMessages, x \in {0, 1, batch_size, batch_size + 1},
        b \in 0..((MaxMessages + batch_size - 1) \div batch_size)}

IngestInputs == ShortDates \cup LongDates

IngestIdle ==
    [pc |-> "idle", date |-> [reply |-> <<>>, raise |-> {}, reversed |-> FALSE],
     i |-> 0, response |-> [raises |-> FALSE, ResultList |-> <<>>], results |-> <<>>,
     submitted |-> <<>>, calls |-> <<>>, rows |-> <<>>, day_sentiments |-> <<>>,
     day |-> [exists |-> FALSE, sentiment |-> <<0, 1>>, message_count |-> 0]]

\* The response of batch_detect_sentiment to the batch text_list (message
\* numbers) of the date dt.
DateResponse(dt, text_list) ==
    LET scored == SelectSeq([j \in 1..Len(text_list) |->
                               [ok |-> dt.reply[text_list[j]] # Missing, Index |-> j - 1,
                                Sentiment |-> dt.reply[text_list[j]].Sentiment,
                                Positive |-> dt.reply[text_list[j]].Positive,
                                Negative |-> dt.reply[text_list[j]].Negative]],
                            LAMBDA r : r.ok)
        k == Len(scored)
    IN [raises |-> ((Head(text_list) - 1) \div batch_size) + 1 \in dt.raise,
        ResultList |-> IF dt.reversed THEN [j \in 1..k |-> scored[k + 1 - j]] ELSE scored]

\* A batch that takes one message of the next batch along.
batch_overlapping(n, i) == [j \in 1..(Min(i + batch_size + 1, n) - i) |-> i + j]

\* Line 188: message_list[i : i + batch_size], as the numbers of its messages
\* in a message_list of n messages.
batch_from(n, i) == [j \in 1..(Min(i + batch_size, n) - i) |-> i + j]

\* Lines 168-184: the Day of the date is created with sentiment 0.0 and
\* message_count = len(message_list).
IngestDate(dt) ==
    /\ ingest.pc = "idle"
    /\ ingest' = [IngestIdle EXCEPT !.pc = "batch", !.date = dt,
                    !.day = [exists |-> TRUE, sentiment |-> <<0, 1>>,
                             message_count |-> Len(dt.reply)]]
    /\ UNCHANGED <<pipeline, correlation, clustering, presence, trail, fetch>>

\* Lines 187-215: one turn of "for i in range(0, len(message_list),
\* batch_size)": the batch is scored (calls: the text_list of every call of
\* the oracle so far), and a Message row is created and its
\* score appended to day_sentiments for every item that has a score.
IngestBatch ==
    /\ ingest.pc = "batch"
    /\ LET n == Len(ingest.date.reply)
           batch == batch_from(n, ingest.i)
           response == DateResponse(ingest.date, batch)
           sentiments == analyze_sentiment_batch(batch, response)
           scored == SelectSeq([j \in 1..Len(batch) |->
                                  [ok |-> sentiments[j].ok, text |-> batch[j],
                                   sentiment |-> sentiments[j].score]],
                               LAMBDA r : r.ok)
       IN ingest' = [ingest EXCEPT
                        !.pc = IF ingest.i + batch_size < n THEN "batch" ELSE "average",
                        !.i = ingest.i + batch_size,
                        !.response = response,
                        !.results = sentiments,
                        !.submitted = ingest.submitted \o batch,
                        !.calls = Append(ingest.calls, batch),
                        !.rows = ingest.rows \o
                                   [j \in 1..Len(scored) |->
                                       [text |-> scored[j].text,
                                        sentiment |-> scored[j].sentiment]],
                        !.day_sentiments = ingest.day_sentiments \o
                                   [j \in 1..Len(scored) |-> scored[j].sentiment]]
    /\ UNCHANGED <<pipeline, correlation, clustering, presence, trail, fetch>>

\* Lines 217-229: the Day gets the average of day_sentiments, or is deleted
\* when no message of the date was scored.
IngestAverage ==
    /\ ingest.pc = "average"
    /\ ingest' = [ingest EXCEPT
                    !.pc = "done",
                    !.day = IF DayKept(ingest.day_sentiments)
                            THEN [@ EXCEPT !.sentiment = avg_sentiment(ingest.day_sentiments)]
                            ELSE [@ EXCEPT !.exists = FALSE]]
    /\ UNCHANGED <<pipeline, correlation, clustering, presence, trail, fetch>>

IngestNext ==
    \/ \E dt \in IngestInputs : IngestDate(dt)
    \/ IngestBatch
    \/ IngestAverage

\* ------------------------------------------------- Python float arithmetic
\* A Python float is an IEEE 754 double. Its 53-bit significand does not fit
\* the integers of the model checker, so a natural number of any size is the
\* sequence of its limbs (digits in base 2^15, least significant first, no
\* leading zero limb), and a float is [neg, m, e]: the number m * 2^e with
\* 2^52 <= m < 2^53, negated when neg; Zero stands for 0.0 and -0.0. The
\* values of a correlation are far from overflow and underflow, which are not
\* modelled.
LimbBits == 15
Base == 32768
Precision == 53

\* 2^k for k in 0..LimbBits
Pow2(k) == <<1, 2, 4, 8, 16, 32, 64, 128, 256, 512, 1024, 2048, 4096, 8192,
             16384, 32768>>[k + 1]

\* The number of bits of a limb
BitLen(n) == Cardinality({k \in 0..(LimbBits - 1) : Pow2(k) <= n})

RECURSIVE BNorm(_)
BNorm(a) == IF a # <<>> /\ a[Len(a)] = 0 THEN BNorm(SubSeq(a, 1, Len(a) - 1)) ELSE a

RECURSIVE BInt(_)
BInt(n) == IF n = 0 THEN <<>> ELSE <<n % Base>> \o BInt(n \div Base)

Limb(a, i) == IF i <= Len(a) THEN a[i] ELSE 0

RECURSIVE BAddFrom(_, _, _, _)
BAddFrom(a, b, i, c) ==
    IF i > Len(a) /\ i > Len(b)
    THEN IF c = 0 THEN <<>> ELSE <<c>>
    ELSE LET t == Limb(a, i) + Limb(b, i) + c
         IN <<t % Base>> \o BAddFrom(a, b, i + 1, t \div Base)

BAdd(a, b) == BAddFrom(a, b, 1, 0)

RECURSIVE BSubFrom(_, _, _, _)
BSubFrom(a, b, i, c) ==
    IF i > Len(a) THEN <<>>
    ELSE LET t == a[i] - Limb(b, i) - c
         IN <<(t + Base) % Base>> \o BSubFrom(a, b, i + 1, IF t < 0 THEN 1 ELSE 0)

\* a - b for a >= b
BSub(a, b) == BNorm(BSubFrom(a, b, 1, 0))

RECURSIVE BCmpFrom(_, _, _)
BCmpFrom(a, b, i) ==
    IF i = 0 THEN 0
    ELSE IF a[i] < b[i] THEN -1
    ELSE IF a[i] > b[i] THEN 1
    ELSE BCmpFrom(a, b, i - 1)

\* -1, 0 or 1 as a < b, a = b or a > b
BCmp(a, b) ==
    IF Len(a) < Len(b) THEN -1
    ELSE IF Len(a) > Len(b) THEN 1
    ELSE BCmpFrom(a, b, Len(a))

RECURSIVE BMulLimbFrom(_, _, _, _)
BMulLimbFrom(a, d, i, c) ==
    IF i > Len(a)
    THEN IF c = 0 THEN <<>> ELSE <<c>>
    ELSE LET t == a[i] * d + c
         IN <<t % Base>> \o BMulLimbFrom(a, d, i + 1, t \div Base)

BMulLimb(a, d) == IF d = 0 THEN <<>> ELSE BMulLimbFrom(a, d, 1, 0)

BShiftLimbs(a, q) == IF a = <<>> THEN <<>> ELSE [i \in 1..q |-> 0] \o a

RECURSIVE BMulFrom(_, _, _)
BMulFrom(a, b, i) ==
    IF i > Len(b) THEN <<>>
    ELSE BAdd(BShiftLimbs(BMulLimb(a, b[i]), i - 1), BMulFrom(a, b, i + 1))

BMul(a, b) == BMulFrom(a, b, 1)

\* a * 2^k and a \div 2^k
BShl(a, k) == BShiftLimbs(BMulLimb(a, Pow2(k % LimbBits)), k \div LimbBits)

BShr(a, k) ==
    LET q == k \div LimbBits
        r == k % LimbBits
        d == IF q >= Len(a) THEN <<>> ELSE SubSeq(a, q + 1, Len(a))
    IN BNorm([i \in 1..Len(d) |->
                (d[i] \div Pow2(r)) + (Limb(d, i + 1) % Pow2(r)) * Pow2(LimbBits - r)])

BBitLen(a) == IF a = <<>> THEN 0 ELSE (Len(a) - 1) * LimbBits + BitLen(a[Len(a)])

BOdd(a) == a # <<>> /\ a[1] % 2 = 1

\* Long division and square root go by digits of ChunkBits bits.
ChunkBits == 4
Digits == 1..(Pow2(ChunkBits) - 1)

\* Quotient and remainder of a division by d: st.r is what is left to
\* divide, st.q the digits of the quotient above digit i.
RECURSIVE BDivFrom(_, _, _)
BDivFrom(st, d, i) ==
    IF i < 0 THEN st
    ELSE LET s == i * ChunkBits
             g == Cardinality({h \in Digits : BCmp(BShl(BMulLimb(d, h), s), st.r) <= 0})
         IN BDivFrom([q |-> BAdd(st.q, BShl(BInt(g), s)),
                      r |-> BSub(st.r, BShl(BMulLimb(d, g), s))], d, i - 1)

\* a \div d and a % d for a quotient of at most i + 1 digits
BDiv(a, d, i) == BDivFrom([q |-> <<>>, r |-> a], d, i)

\* The integer square root of n: st.r holds its digits above digit i.
RECURSIVE BSqrtFrom(_, _, _)
BSqrtFrom(n, st, i) ==
    IF i < 0 THEN st.r
    ELSE LET s == i * ChunkBits
             sq(h) == BMul(BAdd(st.r, BShl(BInt(h), s)), BAdd(st.r, BShl(BInt(h), s)))
             g == Cardinality({h \in Digits : BCmp(sq(h), n) <= 0})
         IN BSqrtFrom(n, [r |-> BAdd(st.r, BShl(BInt(g), s))], i - 1)

BSqrt(n, i) == BSqrtFrom(n, [r |-> <<>>], i)

Zero == [neg |-> FALSE, m |-> <<>>, e |-> 0]

\* The double nearest to m * 2^e (plus a non-zero rest below it when sticky),
\* ties to even.
Round(neg, m, e, sticky) ==
    LET len == BBitLen(m)
        sh == len - Precision
        q == BShr(m, sh)
        c == BCmp(BSub(m, BShl(q, sh)), BShl(<<1>>, sh - 1))
        up == c > 0 \/ (c = 0 /\ (sticky \/ BOdd(q)))
        q1 == IF up THEN BAdd(q, <<1>>) ELSE q
    IN IF m = <<>> THEN Zero
       ELSE IF len <= Precision
       THEN [neg |-> neg, m |-> BShl(m, Precision - len), e |-> e - (Precision - len)]
       ELSE IF BBitLen(q1) > Precision
       THEN [neg |-> neg, m |-> BShr(q1, 1), e |-> e + sh + 1]
       ELSE [neg |-> neg, m |-> q1, e |-> e + sh]

\* float(k) of an int k
FInt(k) == Round(k < 0, BInt(IF k < 0 THEN -k ELSE k), 0, FALSE)

FNeg(a) == IF a = Zero THEN Zero ELSE [a EXCEPT !.neg = ~a.neg]

FAbs(a) == [a EXCEPT !.neg = FALSE]

FAdd(a, b) ==
    LET e == IF a.e < b.e THEN a.e ELSE b.e
        ma == BShl(a.m, a.e - e)
        mb == BShl(b.m, b.e - e)
        c == BCmp(ma, mb)
    IN IF a = Zero THEN b
       ELSE IF b = Zero THEN a
       ELSE IF a.neg = b.neg THEN Round(a.neg, BAdd(ma, mb), e, FALSE)
       ELSE IF c = 0 THEN Zero
       ELSE IF c > 0 THEN Round(a.neg, BSub(ma, mb), e, FALSE)
       ELSE Round(b.neg, BSub(mb, ma), e, FALSE)

FSub(a, b) == FAdd(a, FNeg(b))

FMul(a, b) ==
    IF a = Zero \/ b = Zero THEN Zero
    ELSE Round(a.neg # b.neg, BMul(a.m, b.m), a.e + b.e, FALSE)

\* a / b for b # 0
FDiv(a, b) ==
    LET d == BDiv(BShl(a.m, Precision + 3), b.m, (Precision + 4) \div ChunkBits)
    IN IF a = Zero THEN Zero
       ELSE Round(a.neg # b.neg, d.q, a.e - b.e - (Precision + 3), d.r # <<>>)

\* math.sqrt(a) for a >= 0
FSqrt(a) ==
    LET k == IF (a.e - (Precision + 5)) % 2 = 0 THEN Precision + 5 ELSE Precision + 6
        n == BShl(a.m, k)
        r == BSqrt(n, (Precision + 3) \div ChunkBits)
    IN IF a = Zero THEN Zero
       ELSE Round(FALSE, r, (a.e - k) \div 2, BMul(r, r) # n)

\* a < b
FLess(a, b) ==
    LET d == FSub(a, b) IN d # Zero /\ d.neg

\* sum(values) of CPython up to 3.11: the floats are added from left to
\* right, starting from the int 0.
RECURSIVE FSumFrom(_, _, _)
FSumFrom(values, i, st) ==
    IF i > Len(values) THEN st.total
    ELSE FSumFrom(values, i + 1, [total |-> FAdd(st.total, values[i])])

FSum(values) == FSumFrom(values, 1, [total |-> Zero])

\* ------------------------------------------------------- one correlation
\* One call of _calculate_domain_correlation, _calculate_person_correlation
\* or _calculate_place_correlation for one entity, or one call of
\* _calculate_pearson_correlation on two lists. The sentiment of a Day is
\* written in hundredths and is the double nearest to that decimal.
MaxDays == 5
MaxList == 3

Dimensions == {"website", "person", "place"}

\* The sentiments on the days with the entity and on the days without it.
LevelPairs == {<<50, -50>>, <<-50, 50>>, <<30, -70>>, <<-70, 30>>, <<-70, -70>>,
               <<10, 10>>}

Levels == {p[1] : p \in LevelPairs} \cup {p[2] : p \in LevelPairs}

Double == [k \in Levels |-> FDiv(FInt(k), FInt(100))]

One == FInt(1)

\* Up to MaxDays days with sentiment, the entity present on any of them.
EntityInputs ==
    UNION {{[call |-> dim,
             sentiment_scores |-> [i \in 1..n |-> IF i \in present THEN p[1] ELSE p[2]],
             presence |-> [i \in 1..n |-> IF i \in present THEN 1 ELSE 0]] :
               dim \in Dimensions, p \in LevelPairs, present \in SUBSET (1..n)} :
           n \in 1..MaxDays}

\* Ten days of sentiment alternating 0.5 and -0.5, a domain visited on the
\* positive days or on the negative days.
Alternating ==
    {[call |-> "website",
      sentiment_scores |-> [i \in 1..10 |-> IF i % 2 = 1 THEN 50 ELSE -50],
      presence |-> [i \in 1..10 |-> IF i % 2 = b THEN 1 ELSE 0]] : b \in {0, 1}}

RECURSIVE Lists(_, _)
Lists(S, n) ==
    IF n = 0 THEN {<<>>}
    ELSE Lists(S, n - 1) \cup {Append(s, v) : s \in Lists(S, n - 1), v \in S}

\* Two lists of up to MaxList elements each.
PearsonInputs ==
    {[call |-> "pearson", sentiment_scores |-> x, presence |-> y] :
        x \in Lists({-70, 10}, MaxList), y \in Lists({0, 1}, MaxList)}

CorrInputs == EntityInputs \cup Alternating \cup PearsonInputs

NoCorrelation == [ok |-> FALSE, correlation |-> Zero, significance_score |-> Zero]

CorrIdle ==
    [pc |-> "idle", call |-> "", sentiment_scores |-> <<>>, presence |-> <<>>,
     days_present |-> 0, days_absent |-> 0, total |-> 0,
     numerator |-> Zero, radicand |-> Zero, denominator |-> Zero,
     returned |-> [raises |-> FALSE, value |-> Zero],
     result |-> NoCorrelation]

\* The counts and the rejection test of the three dimensions.
Counts(dim, n, present) ==
    LET dws == {[date |-> i] : i \in 1..n}
        w == calculate_domain_correlation(dws, present)
        p == calculate_person_correlation(dws, present)
        l == calculate_place_correlation(dws, present,
                                         [visit_count |-> Cardinality(present)])
    IN CASE dim = "website" ->
              [ok |-> w.ok, present |-> w.days_visited, absent |-> w.days_not_visited,
               total |-> w.total_visits]
         [] dim = "person" ->
              [ok |-> p.ok, present |-> p.days_interacted,
               absent |-> p.days_not_interacted, total |-> p.total_messages]
         [] dim = "place" ->
              [ok |-> l.ok, present |-> l.days_present, absent |-> l.days_not_present,
               total |-> l.total_visits]

\* Lines 1005-1042 (1253-1290, 1490-1527): the loop over days_with_sentiment
\* and the rejection test; an accepted entity goes on to
\* _calculate_pearson_correlation.
CalculateCorrelation(c) ==
    /\ correlation.pc = "idle"
    /\ c.call \in Dimensions
    /\ LET n == Len(c.sentiment_scores)
           counts == Counts(c.call, n, {i \in 1..n : c.presence[i] = 1})
       IN correlation' = [CorrIdle EXCEPT
                            !.pc = IF counts.ok THEN "sums" ELSE "done",
                            !.call = c.call,
                            !.sentiment_scores = c.sentiment_scores,
                            !.presence = c.presence,
                            !.days_present = counts.present,
                            !.days_absent = counts.absent,
                            !.total = counts.total]
    /\ UNCHANGED <<pipeline, ingest, clustering, presence, trail, fetch>>

\* A call of _calculate_pearson_correlation(x, y) by itself.
CallPearson(c) ==
    /\ correlation.pc = "idle"
    /\ c.call = "pearson"
    /\ correlation' = [CorrIdle EXCEPT !.pc = "sums", !.call = c.call,
                         !.sentiment_scores = c.sentiment_scores,
                         !.presence = c.presence]
    /\ UNCHANGED <<pipeline, ingest, clustering, presence, trail, fetch>>

\* Lines 1071-1084: the length test, the five sums, the numerator and the
\* argument of math.sqrt.
PearsonSums ==
    /\ correlation.pc = "sums"
    /\ LET x == [i \in 1..Len(correlation.sentiment_scores) |->
                    Double[correlation.sentiment_scores[i]]]
           y == correlation.presence
           n == Len(x)
           sum_x == FSum(x)
           sum_y == SumSeq(y)
           sum_x_sq == FSum([i \in 1..n |-> FMul(x[i], x[i])])
           sum_y_sq == SumSeq([i \in 1..n |-> y[i] * y[i]])
           sum_xy == FSum([i \in 1..n |-> FMul(x[i], FInt(y[i]))])
       IN IF Len(x) # Len(y) \/ Len(x) < 2
          THEN correlation' = [correlation EXCEPT
                                 !.pc = "return",
                                 !.returned = [raises |-> FALSE, value |-> Zero]]
          ELSE correlation' = [correlation EXCEPT
                                 !.pc = "root",
                                 !.numerator = FSub(FMul(FInt(n), sum_xy),
                                                    FMul(sum_x, FInt(sum_y))),
                                 !.radicand =
                                     FMul(FSub(FMul(FInt(n), sum_x_sq), FMul(sum_x, sum_x)),
                                          FInt(n * sum_y_sq - sum_y * sum_y))]
    /\ UNCHANGED <<pipeline, ingest, clustering, presence, trail, fetch>>

\* Lines 1082-1084: math.sqrt raises ValueError on a negative argument.
PearsonRoot ==
    /\ correlation.pc = "root"
    /\ IF correlation.radicand.neg
       THEN correlation' = [correlation EXCEPT
                              !.pc = "return",
                              !.returned = [raises |-> TRUE, value |-> Zero]]
       ELSE correlation' = [correlation EXCEPT
                              !.pc = "divide",
                              !.denominator = FSqrt(correlation.radicand)]
    /\ UNCHANGED <<pipeline, ingest, clustering, presence, trail, fetch>>

\* Lines 1086-1089: 0.0 for a denominator of zero, or else the quotient.
PearsonDivide ==
    /\ correlation.pc = "divide"
    /\ correlation' = [correlation EXCEPT
                         !.pc = "return",
                         !.returned =
                             [raises |-> FALSE,
                              value |-> IF correlation.denominator = Zero THEN Zero
                                        ELSE FDiv(correlation.numerator,
                                                  correlation.denominator)]]
    /\ UNCHANGED <<pipeline, ingest, clustering, presence, trail, fetch>>

\* abs(correlation) with its sign kept.
signed_significance_score(coefficient, days_present, days_absent) ==
    FDiv(FMul(coefficient, FInt(Min(days_present, days_absent))), FInt(10))

\* Lines 1045-1047: abs(correlation) * min(days_visited, days_not_visited) / 10.0
significance_score(coefficient, days_present, days_absent) ==
    FDiv(FMul(FAbs(coefficient), FInt(Min(days_present, days_absent))), FInt(10))

\* Lines 1045-1067: back in the caller, the result with its significance
\* score; "except Exception" turns the ValueError into the result None.
PearsonReturn ==
    /\ correlation.pc = "return"
    /\ correlation' = [correlation EXCEPT
                         !.pc = "done",
                         !.result =
                             IF correlation.call = "pearson" \/ correlation.returned.raises
                             THEN NoCorrelation
                             ELSE [ok |-> TRUE,
                                   correlation |-> correlation.returned.value,
                                   significance_score |->
                                       significance_score(correlation.returned.value,
                                                          correlation.days_present,
                                                          correlation.days_absent)]]
    /\ UNCHANGED <<pipeline, ingest, clustering, presence, trail, fetch>>

CorrNext ==
    \/ \E c \in CorrInputs : CalculateCorrelation(c)
    \/ \E c \in CorrInputs : CallPearson(c)
    \/ PearsonSums
    \/ PearsonRoot
    \/ PearsonDivide
    \/ PearsonReturn

\* ------------------------------------------------------- one clustering
\* One call of LocationClusterer._cluster_stay_points, and a second call on
\* the same stay points in another order. A stay point is its centroid
\* <<latitude, longitude>> in units of 1/111000 degree, so that eps_degrees is
\* cluster_distance_threshold units; no two stay points of the inputs are at
\* a distance that rounding could move across eps.
MaxVisits == 4
MaxPerPlace == 2

cluster_distance_threshold == 200

\* The distance between neighbouring places of the inputs.
Spacing == 150

\* Stay points at five places in a row, in the order of the places: up to
\* MaxPerPlace at the first and at the last place, at most one in between.
RowInputs ==
    {Flatten([p \in 1..5 |-> [j \in 1..c[p] |-> <<Spacing * (p - 1), 0>>]]) :
        c \in {d \in [1..5 -> 0..MaxPerPlace] : \A p \in 2..4 : d[p] <= 1}}

\* Up to MaxList stay points at the corners of a square, in every order.
SquareInputs == Lists({0, Spacing} \X {0, Spacing}, MaxList)

ClusterInputs == RowInputs \cup SquareInputs

\* The orders of n stay points for the second call: reversed and rotated.
Orders(n) ==
    {[j \in 1..n |-> n + 1 - j]} \cup
    {[j \in 1..n |-> ((j + r - 1) % n) + 1] : r \in 1..(n - 1)}

ClusterIdle ==
    [pc |-> "idle", min_cluster_visits |-> 0, stay_points |-> <<>>, clusters |-> <<>>,
     order |-> <<>>, permuted |-> <<>>]

\* The squared euclidean distance of two stay points.
SquaredDistance(a, b) ==
    (a[1] - b[1]) * (a[1] - b[1]) + (a[2] - b[2]) * (a[2] - b[2])

\* DBSCAN: the stay points within eps of stay point i, itself included.
Neighborhood(coordinates, i) ==
    {j \in 1..Len(coordinates) :
        SquaredDistance(coordinates[i], coordinates[j])
            <= cluster_distance_threshold * cluster_distance_threshold}

\* A core test that is one neighbour short.
IsCoreOneShort(coordinates, min_samples, i) ==
    Cardinality(Neighborhood(coordinates, i)) >= min_samples - 1

IsCore(coordinates, min_samples, i) ==
    Cardinality(Neighborhood(coordinates, i)) >= min_samples

\* DBSCAN: the cluster grown from the points of members: the neighbours of
\* its core points join it unless they have a label already.
RECURSIVE Grow(_, _, _, _)
Grow(coordinates, min_samples, labelled, members) ==
    LET reached == UNION {Neighborhood(coordinates, c) :
                            c \in {v \in members : IsCore(coordinates, min_samples, v)}}
        new == reached \ (members \cup labelled)
    IN IF new = {} THEN members
       ELSE Grow(coordinates, min_samples, labelled, members \cup new)

\* DBSCAN.fit_predict: the points are visited in index order, and every core
\* point without a label starts the next cluster; -1 is noise.
RECURSIVE FitPredictFrom(_, _, _, _)
FitPredictFrom(coordinates, min_samples, i, st) ==
    IF i > Len(coordinates) THEN st.labels
    ELSE IF st.labels[i] # -1 \/ ~IsCore(coordinates, min_samples, i)
    THEN FitPredictFrom(coordinates, min_samples, i + 1, st)
    ELSE LET labelled == {j \in 1..Len(coordinates) : st.labels[j] # -1}
             cluster == Grow(coordinates, min_samples, labelled, {i})
         IN FitPredictFrom(coordinates, min_samples, i + 1,
                [labels |-> [j \in 1..Len(coordinates) |->
                                IF j \in cluster THEN st.label_num ELSE st.labels[j]],
                 label_num |-> st.label_num + 1])

fit_predict(coordinates, min_samples) ==
    FitPredictFrom(coordinates, min_samples, 1,
                   [labels |-> [j \in 1..Len(coordinates) |-> -1], label_num |-> 0])

\* Lines 285-351: the clusters, each the indices of its stay points in input
\* order, in the order in which clusters_dict got its keys.
cluster_stay_points(stay_points, min_cluster_visits) ==
    LET cluster_labels == fit_predict(stay_points, min_cluster_visits)
        first == Ascending({i \in 1..Len(stay_points) :
                              /\ cluster_labels[i] # -1
                              /\ \A j \in 1..(i - 1) : cluster_labels[j] # cluster_labels[i]})
    IN IF Len(stay_points) < min_cluster_visits THEN <<>>
       ELSE [k \in 1..Len(first) |->
               Ascending({i \in 1..Len(stay_points) :
                            cluster_labels[i] = cluster_labels[first[k]]})]

\* A call of _cluster_stay_points.
ClusterStayPoints(stay_points, min_cluster_visits) ==
    /\ clustering.pc = "idle"
    /\ clustering' = [ClusterIdle EXCEPT
                        !.pc = "clustered",
                        !.min_cluster_visits = min_cluster_visits,
                        !.stay_points = stay_points,
                        !.clusters = cluster_stay_points(stay_points, min_cluster_visits)]
    /\ UNCHANGED <<pipeline, ingest, correlation, presence, trail, fetch>>

\* A second call with the stay points in another order: stay point
\* order[j] of the first call is stay point j of the second.
ClusterPermuted(order) ==
    /\ clustering.pc = "clustered"
    /\ Len(order) = Len(clustering.stay_points)
    /\ clustering' = [clustering EXCEPT
                        !.pc = "permuted",
                        !.order = order,
                        !.permuted =
                            cluster_stay_points(
                                [j \in 1..Len(order) |-> clustering.stay_points[order[j]]],
                                clustering.min_cluster_visits)]
    /\ UNCHANGED <<pipeline, ingest, correlation, presence, trail, fetch>>

ClusterNext ==
    \/ \E sp \in ClusterInputs, m \in 1..MaxVisits : ClusterStayPoints(sp, m)
    \/ \E order \in Orders(Len(clustering.stay_points)) : ClusterPermuted(order)

\* ------------------------------------------- the presence of one place
\* One turn of "for location in locations" of _extract_daily_place_presence,
\* for the analysis window start_date..end_date. Dates are day numbers;
\* first_visit <= last_visit, as Location rows are created from clusters
\* (first_visit the earliest start, last_visit the latest end of a visit).
MaxVisitCount == 4

\* A Location without visits: first_visit and last_visit are None.
NoDate == 0 - 100

VisitDates == (start_date - 2)..(end_date + 2)

PresenceInputs ==
    {l \in [visit_count : 0..MaxVisitCount,
            total_time_minutes : {0, time_threshold - 1, time_threshold,
                                  time_threshold + 1},
            first_visit : VisitDates \cup {NoDate},
            last_visit : VisitDates \cup {NoDate}] :
        \/ l.first_visit = NoDate /\ l.last_visit = NoDate
        \/ l.first_visit # NoDate /\ l.last_visit # NoDate
           /\ l.first_visit <= l.last_visit}

PresenceIdle ==
    [pc |-> "idle",
     location |-> [visit_count |-> 0, total_time_minutes |-> 0,
                   first_visit |-> NoDate, last_visit |-> NoDate],
     marked |-> {}]

\* Lines 1432-1471: the dates on which the location is added to
\* daily_place_presence; a location without visits is passed over.
ExtractDailyPlacePresence(location) ==
    /\ presence.pc = "idle"
    /\ presence' = [pc |-> "done", location |-> location,
                    marked |-> IF location.first_visit = NoDate
                                  \/ location.last_visit = NoDate
                               THEN {}
                               ELSE daily_place_presence(location)]
    /\ UNCHANGED <<pipeline, ingest, correlation, clustering, trail, fetch>>

PresenceNext == \E location \in PresenceInputs : ExtractDailyPlacePresence(location)

\* ------------------------------------------- the stay points of one trail
\* process_gps_trail up to the stay points: _convert_to_gps_points, then the
\* loop of _detect_stay_points, one turn of "while i < len(gps_points)" at
\* a time. A coordinate or timestamp of a record is [kind, v]: kind "none"
\* (the key is missing or None), "zero" (the number 0), "bad" (a string that
\* is no number, no date) or "num"; a timestamp is in minutes and parses to an
\* offset-aware or to a naive datetime. All fixes of the inputs lie on one
\* meridian, where the haversine distance is the difference of the
\* latitudes, written in metres.
MaxFixes == 4
MaxRecords == 2

stay_distance_threshold == 100
stay_time_threshold == 10

Absent == [kind |-> "none", v |-> 0]
Malformed == [kind |-> "bad", v |-> 0]
Number(v) == [kind |-> IF v = 0 THEN "zero" ELSE "num", v |-> v]
Time(v, aware) == [kind |-> "time", v |-> v, aware |-> aware]
NoTime == [kind |-> "none", v |-> 0, aware |-> TRUE]
BadTime == [kind |-> "bad", v |-> 0, aware |-> TRUE]

NoHints == [location_name |-> "", address |-> "", source |-> ""]

\* A record of location data that is in order.
Fix(latitude, minute) ==
    [latitude |-> Number(latitude), longitude |-> Number(5),
     timestamp |-> Time(minute, TRUE), activity_type |-> "", hints |-> NoHints]

\* A record in order (offset-aware or naive timestamp), or one that lacks
\* or garbles a coordinate or the timestamp, or has a coordinate 0.
Records ==
    {[Fix(1000, m) EXCEPT !.timestamp = Time(m, a)] : m \in {0, 10}, a \in BOOLEAN}
    \cup {[Fix(1000, 0) EXCEPT !.latitude = c] : c \in {Absent, Malformed, Number(0)}}
    \cup {[Fix(1000, 0) EXCEPT !.longitude = c] : c \in {Absent, Malformed, Number(0)}}
    \cup {[Fix(1000, 0) EXCEPT !.timestamp = c] : c \in {NoTime, BadTime}}

RecordInputs == Lists(Records, MaxRecords)

\* The latitudes of the trails: 1100 is at the distance threshold from 1000.
Places == {1000, 1000 + stay_distance_threshold, 1250}

\* Trails of up to MaxFixes fixes from minute 0 on, each 5 or 10 minutes
\* after the one before.
RECURSIVE Trails(_)
Trails(n) ==
    IF n = 0 THEN {<<>>}
    ELSE Trails(n - 1) \cup
         {Append(s, Fix(p, IF s = <<>> THEN 0 ELSE s[Len(s)].timestamp.v + g)) :
             s \in {u \in Trails(n - 1) : Len(u) = n - 1}, p \in Places, g \in {5, 10}}

Hints ==
    {NoHints,
     [location_name |-> "home", address |-> "", source |-> ""],
     [location_name |-> "", address |-> "street", source |-> "ios"],
     [location_name |-> "cafe", address |-> "lane", source |-> "android"]}

\* Three fixes at one place within ten minutes, with every choice of
\* activity tag and hints.
TaggedTrails ==
    {[k \in 1..3 |-> [Fix(1000, 5 * (k - 1)) EXCEPT !.activity_type = a[k],
                                                   !.hints = h[k]]] :
        a \in [1..3 -> {"", "walk", "still"}], h \in [1..3 -> Hints]}

TrailInputs == RecordInputs \cup Trails(MaxFixes) \cup TaggedTrails

TrailIdle ==
    [pc |-> "idle", gps_data |-> <<>>, raises |-> FALSE, gps_points |-> <<>>, i |-> 0,
     stay_points |-> <<>>]

\* "not record.get(key)": None, 0 and "" are false.
Truthy(c) == c.kind \in {"bad", "num"}

\* Lines 175-192: the record gets past the test of its coordinates, its
\* timestamp parses and float() takes its coordinates.
Kept(record) ==
    /\ Truthy(record.latitude) /\ Truthy(record.longitude)
    /\ record.timestamp.kind = "time"
    /\ record.latitude.kind = "num" /\ record.longitude.kind = "num"

\* list.sort(key=timestamp) is stable: p goes behind every point that is
\* not later than p.
RECURSIVE SortedInsert(_, _)
SortedInsert(points, p) ==
    IF points = <<>> THEN <<p>>
    ELSE IF points[Len(points)].timestamp <= p.timestamp THEN Append(points, p)
    ELSE Append(SortedInsert(SubSeq(points, 1, Len(points) - 1), p), points[Len(points)])

RECURSIVE SortByTimestamp(_)
SortByTimestamp(points) ==
    IF points = <<>> THEN <<>>
    ELSE SortedInsert(SortByTimestamp(SubSeq(points, 1, Len(points) - 1)),
                      points[Len(points)])

\* _convert_to_gps_points: the GPSPoints (record is the index of the record
\* in gps_data); comparing an offset-aware with a naive datetime raises
\* TypeError in the sort.
convert_to_gps_points(gps_data) ==
    LET kept == SelectSeq([k \in 1..Len(gps_data) |->
                             [record |-> k, ok |-> Kept(gps_data[k]),
                              latitude |-> gps_data[k].latitude.v,
                              longitude |-> gps_data[k].longitude.v,
                              timestamp |-> gps_data[k].timestamp.v,
                              aware |-> gps_data[k].timestamp.aware,
                              activity_type |-> gps_data[k].activity_type,
                              hints |-> gps_data[k].hints]],
                          LAMBDA p : p.ok)
    IN [raises |-> \E a, b \in 1..Len(kept) : kept[a].aware # kept[b].aware,
        points |-> SortByTimestamp(kept)]

\* _calculate_distance of two fixes on one meridian.
calculate_distance(p, q) ==
    IF p.latitude < q.latitude THEN q.latitude - p.latitude
    ELSE p.latitude - q.latitude

\* A window that ends before a fix at exactly the distance threshold.
WindowEndAtThreshold(gps_points, i, j) ==
    CHOOSE k \in j..(Len(gps_points) + 1) :
        /\ k > Len(gps_points)
           \/ calculate_distance(gps_points[i], gps_points[k]) >= stay_distance_threshold
        /\ \A l \in j..(k - 1) :
              calculate_distance(gps_points[i], gps_points[l]) < stay_distance_threshold

\* Lines 213-225: j goes forward from i + 1 to the first fix that is farther
\* than the threshold from fix i, or to the end of the trail.
WindowEnd(gps_points, i, j) ==
    CHOOSE k \in j..(Len(gps_points) + 1) :
        /\ k > Len(gps_points)
           \/ calculate_distance(gps_points[i], gps_points[k]) > stay_distance_threshold
        /\ \A l \in j..(k - 1) :
              calculate_distance(gps_points[i], gps_points[l]) <= stay_distance_threshold

\* The number of points of the segment with activity tag a.
ActivityCount(segment_points, a) ==
    Cardinality({k \in 1..Len(segment_points) : segment_points[k].activity_type = a})

\* Lines 245-255: max(activity_types.items(), key=count) is the first tag of
\* the dict, which is in order of first occurrence, that has the largest
\* count.
most_common_activity(segment_points) ==
    LET tagged == {k \in 1..Len(segment_points) : segment_points[k].activity_type # ""}
        best == CHOOSE k \in tagged :
                  /\ \A l \in tagged :
                        ActivityCount(segment_points, segment_points[l].activity_type)
                          <= ActivityCount(segment_points, segment_points[k].activity_type)
                  /\ \A l \in tagged :
                        (ActivityCount(segment_points, segment_points[l].activity_type)
                           = ActivityCount(segment_points, segment_points[k].activity_type))
                        => k <= l
    IN IF tagged = {} THEN "" ELSE segment_points[best].activity_type

\* Lines 257-260: location_name, address and source are those of the fix
\* gps_points[i], the first of the segment.
hint_of_anchor(segment_points, key) == segment_points[1].hints[key]

\* Lines 234-270: the StayPoint of the segment gps_points[i:j] (first and
\* last are the indices of its fixes, latitude its centroid as sum and count).
StayPoint(gps_points, i, j) ==
    LET segment_points == SubSeq(gps_points, i, j - 1)
    IN [first |-> i, last |-> j - 1,
        latitude |-> <<SumSeq([k \in 1..Len(segment_points) |->
                                  segment_points[k].latitude]), Len(segment_points)>>,
        start_time |-> gps_points[i].timestamp,
        end_time |-> gps_points[j - 1].timestamp,
        point_count |-> Len(segment_points),
        activity_type |-> most_common_activity(segment_points),
        location_name |-> hint_of_anchor(segment_points, "location_name"),
        address |-> hint_of_anchor(segment_points, "address"),
        source |-> hint_of_anchor(segment_points, "source")]

\* An anchor that moves on by one fix whatever the window was.
next_anchor_by_one(i, j) == i + 1

\* Line 275: i = max(i + 1, j)
next_anchor(i, j) == IF i + 1 > j THEN i + 1 ELSE j

\* Lines 146-149: the records are converted and sorted; without a GPSPoint
\* the trail is done.
ConvertToGpsPoints(gps_data) ==
    /\ trail.pc = "idle"
    /\ LET converted == convert_to_gps_points(gps_data)
       IN trail' = [TrailIdle EXCEPT
                       !.pc = IF converted.raises \/ converted.points = <<>>
                              THEN "done" ELSE "detect",
                       !.gps_data = gps_data,
                       !.raises = converted.raises,
                       !.gps_points = IF converted.raises THEN <<>> ELSE converted.points,
                       !.i = 1]
    /\ UNCHANGED <<pipeline, ingest, correlation, clustering, presence, fetch>>

\* Lines 212-275: one turn of "while i < len(gps_points)" (indices from 1):
\* the window, its StayPoint when it has 2 fixes and lasts long enough, and
\* i = max(i + 1, j).
DetectStayPoints ==
    /\ trail.pc = "detect"
    /\ LET i == trail.i
           j == WindowEnd(trail.gps_points, i, i + 1)
           time_diff == trail.gps_points[j - 1].timestamp - trail.gps_points[i].timestamp
       IN IF i > Len(trail.gps_points)
          THEN trail' = [trail EXCEPT !.pc = "done"]
          ELSE trail' = [trail EXCEPT
                           !.i = next_anchor(i, j),
                           !.stay_points =
                               IF j > i + 1 /\ time_diff >= stay_time_threshold
                               THEN Append(@, StayPoint(trail.gps_points, i, j))
                               ELSE @]
    /\ UNCHANGED <<pipeline, ingest, correlation, clustering, presence, fetch>>

TrailNext ==
    \/ \E gps_data \in TrailInputs : ConvertToGpsPoints(gps_data)
    \/ DetectStayPoints

\* --------------------------------------------------- one paginated fetch
\* The loops of _fetch_imessages, _fetch_whatsapp_messages,
\* _fetch_location_data and _analyze_website_correlations are the same loop
\* on four tables. The rows of a table that pass the filters of the query
\* are numbered 1..n in the order in which the table returns them; the
\* table does not change while it is fetched.
Tables == {"imessages", "whatsapp_messages", "location_history", "browser_history"}

\* Tables of up to MaxPages full pages, up to three rows more or less.
TableSizes ==
    {k * page_size + d : k \in 0..MaxPages, d \in 0..3}
    \cup {k * page_size - d : k \in 1..MaxPages, d \in 1..3}

FetchIdle ==
    [pc |-> "idle", table |-> "", rows |-> 0, offset |-> 0, all |-> <<>>,
     requests |-> <<>>]

\* .range(from, to).execute(): the rows at the offsets from..to of the
\* n rows, both ends included, fewer when the table ends before.
range(n, from, to) == [j \in 1..(Min(to + 1, n) - Min(from, n)) |-> from + j]

\* An offset that goes on at the last row of the page before.
next_offset_on_last_row(offset) == offset + page_size - 1

\* offset += batch_size
next_offset(offset) == offset + page_size

\* all_messages = [], batch_size = 1000, offset = 0
StartFetch(table, n) ==
    /\ fetch.pc = "idle"
    /\ fetch' = [FetchIdle EXCEPT !.pc = "request", !.table = table, !.rows = n]
    /\ UNCHANGED <<pipeline, ingest, correlation, clustering, presence, trail>>

\* One turn of "while True": the page at offset is requested (requests: the
\* range and the number of rows of every response so far); an empty page
\* ends the loop, another one is collected and ends the loop when it is
\* shorter than the page size.
FetchPage ==
    /\ fetch.pc = "request"
    /\ LET first == fetch.offset
           final == fetch.offset + page_size - 1
           data == range(fetch.rows, first, final)
           request == [first |-> first, last |-> final, rows |-> Len(data)]
       IN IF data = <<>>
          THEN fetch' = [fetch EXCEPT !.pc = "done", !.requests = Append(@, request)]
          ELSE fetch' = [fetch EXCEPT
                           !.pc = IF Len(data) < page_size THEN "done" ELSE "request",
                           !.all = @ \o data,
                           !.offset = next_offset(@),
                           !.requests = Append(@, request)]
    /\ UNCHANGED <<pipeline, ingest, correlation, clustering, presence, trail>>

FetchNext ==
    \/ \E table \in Tables, n \in TableSizes : StartFetch(table, n)
    \/ FetchPage

\* ------------------------------------------------------------------ Init
Init ==
    /\ status = [t \in TAs |-> "none"]
    /\ error_message = [t \in TAs |-> ""]
    /\ days = {}
    /\ messages = {}
    /\ locations = {}
    /\ websites = {}
    /\ persons = {}
    /\ places = {}
    /\ runs = 0
    /\ pc = [w \in Workers |-> "idle"]
    /\ ta = [w \in Workers |-> 0]
    /\ run = [w \in Workers |-> 0]
    /\ inp = [w \in Workers |-> NoInput]
    /\ todo = [w \in Workers |-> <<>>]
    /\ last = [t \in TAs |-> [run |-> 0, via |-> "none", fetched |-> FALSE, calls |-> 0]]
    /\ snap = [t \in TAs |-> [valid |-> FALSE, repeat |-> FALSE, input |-> NoInput,
                              result |-> NoResult]]
    /\ ingest = IngestIdle
    /\ correlation = CorrIdle
    /\ clustering = ClusterIdle
    /\ presence = PresenceIdle
    /\ trail = TrailIdle
    /\ fetch = FetchIdle

\* The request handler returns (or is aborted by an exception): its locals die.
Return(w) ==
    /\ pc' = [pc EXCEPT ![w] = "idle"]
    /\ ta' = [ta EXCEPT ![w] = 0]
    /\ run' = [run EXCEPT ![w] = 0]
    /\ inp' = [inp EXCEPT ![w] = NoInput]
    /\ todo' = [todo EXCEPT ![w] = <<>>]

Goto(w, l) == pc' = [pc EXCEPT ![w] = l]

\* ------------------------------------------------------------ the requests
\* A save that runs the analysis whenever the status is "pending".
save_starts_when_pending(is_new, st) == IF st = "pending" THEN 1 ELSE 0

\* Lines 49-57, TimeAnalysis.save: the number of executions of
\* perform_sentiment_analysis it starts, one when the row is new (pk is
\* None before the insert) and its status is "pending".
save_starts(is_new, st) == IF is_new /\ st = "pending" THEN 1 ELSE 0

\* POST /time-analyses/: TimeAnalysis.save inserts the row (status "pending",
\* is_new) and calls perform_sentiment_analysis.
Create(w) ==
    /\ pc[w] = "idle"
    /\ runs < MaxRuns
    /\ \E t \in TAs :
        /\ status[t] = "none"
        /\ \A u \in TAs : u < t => status[u] # "none"
        /\ status' = [status EXCEPT ![t] = "pending"]
        /\ error_message' = [error_message EXCEPT ![t] = ""]
        /\ ta' = [ta EXCEPT ![w] = t]
        /\ last' = [last EXCEPT ![t] = [run |-> runs + 1, via |-> "create",
                                        fetched |-> FALSE, calls |-> 0]]
    /\ runs' = runs + save_starts(TRUE, "pending")
    /\ run' = [run EXCEPT ![w] = runs + 1]
    /\ Goto(w, "clear")
    /\ UNCHANGED <<parts, store, inp, todo, snap>>

\* POST /time-analyses/{pk}/rerun_analysis/ on a row that is not
\* "processing": the Day rows are deleted, the row is saved with status
\* "pending" (views.py line 85) and perform_sentiment_analysis is called
\* (line 88).
RerunAnalysis(w, t) ==
    /\ pc[w] = "idle"
    /\ runs < MaxRuns
    /\ status[t] \notin {"none", "processing"}
    /\ days' = {r \in days : r.ta # t}
    /\ messages' = {m \in messages : m.ta # t}
    /\ status' = [status EXCEPT ![t] = "pending"]
    /\ error_message' = [error_message EXCEPT ![t] = ""]
    /\ ta' = [ta EXCEPT ![w] = t]
    /\ last' = [last EXCEPT ![t] = [run |-> runs + 1, via |-> "rerun",
                                    fetched |-> FALSE, calls |-> 0]]
    /\ runs' = runs + save_starts(FALSE, "pending") + 1
    /\ run' = [run EXCEPT ![w] = runs + 1]
    /\ Goto(w, "clear")
    /\ UNCHANGED <<parts, locations, websites, persons, places, inp, todo, snap>>

\* A rejection that comes after the deletion of the Day rows.
RerunRejectedAfterDelete(w, t) ==
    /\ pc[w] = "idle"
    /\ status[t] = "processing"
    /\ days' = {r \in days : r.ta # t}
    /\ ta' = [ta EXCEPT ![w] = t]
    /\ Goto(w, "rejected")
    /\ UNCHANGED <<parts, messages, locations, websites, persons, places, status,
                   error_message, runs, run, inp, todo, last, snap>>

\* views.py lines 74-78: rerun_analysis on a row that is "processing" returns
\* the error response (status 400) before it touches anything.
RerunRejected(w, t) ==
    /\ pc[w] = "idle"
    /\ status[t] = "processing"
    /\ ta' = [ta EXCEPT ![w] = t]
    /\ Goto(w, "rejected")
    /\ UNCHANGED <<parts, store, status, error_message, runs, run, inp, todo, last, snap>>

\* The error response is sent.
RespondRejected(w) ==
    /\ pc[w] = "rejected"
    /\ Return(w)
    /\ UNCHANGED <<parts, store, status, error_message, runs, last, snap>>

\* ------------------------------------------- perform_sentiment_analysis
\* Lines 66-97: wholesale deletion of Message, Day and Location rows (and, by
\* cascade, of the PlaceAnalysis rows of the deleted Locations), then
\* status = "processing".
Clear(w) ==
    /\ pc[w] = "clear"
    /\ messages' = MessagesAfterClear(ta[w])
    /\ days' = DaysAfterClear(ta[w])
    /\ locations' = LocationsAfterClear(ta[w])
    /\ places' = places \ CascadePlaces(locations \ LocationsAfterClear(ta[w]))
    /\ status' = [status EXCEPT ![ta[w]] = "processing"]
    /\ runs' = runs + save_starts(FALSE, "processing")
    /\ Goto(w, "config")
    /\ UNCHANGED <<parts, error_message, websites, persons, locals, last, snap>>

\* A status "error" saved without its message.
NoCredentialsMessage(c) == ""

\* The message saved with status "error" for a missing credential.
CredentialsMessage(c) ==
    IF c = "no_supabase" THEN "Supabase credentials not configured"
    ELSE "AWS credentials not configured"

\* Lines 99-132: the credential checks and the construction of the clients;
\* create_client raises on a malformed SUPABASE_URL and nothing catches it.
Configure(w, c) ==
    /\ pc[w] = "config"
    /\ IF c \in {"no_supabase", "no_aws"}
       THEN /\ status' = [status EXCEPT ![ta[w]] = "error"]
            /\ error_message' = [error_message EXCEPT ![ta[w]] = CredentialsMessage(c)]
            /\ runs' = runs + save_starts(FALSE, "error")
            /\ Return(w)
       ELSE IF c = "bad_url"
       THEN /\ Return(w)
            /\ UNCHANGED <<status, error_message, runs>>
       ELSE /\ Goto(w, "fetch")
            /\ UNCHANGED <<status, error_message, runs, locals>>
    /\ UNCHANGED <<parts, store, last, snap>>

\* A website pass that starts while dates are left.
after_date_skipping(rest) == "web"

\* Lines 160-237: "for date_str, message_list in daily_messages.items()"
\* goes on with the next date; the website pass follows the last one.
after_date(rest) == IF rest = <<>> THEN "web" ELSE "day"

\* Lines 134-154: _fetch_imessages, _fetch_whatsapp_messages and
\* _fetch_location_data, which stores one Location per cluster.
Fetch(w, e) ==
    /\ pc[w] = "fetch"
    /\ inp' = [inp EXCEPT ![w] = e]
    /\ locations' = locations \cup
          {[ta |-> ta[w], run |-> run[w], k |-> c.k, visit_count |-> c.visit_count,
            total_time_minutes |-> c.total_time_minutes,
            first_visit |-> c.first_visit, last_visit |-> c.last_visit] : c \in clusters(e)}
    /\ todo' = [todo EXCEPT ![w] = Ascending(daily_messages(e))]
    /\ last' = [last EXCEPT ![ta[w]].fetched = TRUE]
    /\ Goto(w, after_date(Ascending(daily_messages(e))))
    /\ UNCHANGED <<parts, status, error_message, days, messages, websites, persons,
                   places, runs, ta, run, snap>>

\* Lines 161-181: Day.objects.create for the next date; an exception (the
\* uniqueness constraint) is logged and the date is skipped.
CreateDay(w) ==
    /\ pc[w] = "day"
    /\ LET d == Head(todo[w])
       IN IF DayCreateOK(ta[w], d)
          THEN /\ days' = days \cup {DayRow(ta[w], d, run[w], <<0, 1>>,
                                            Len(message_list(inp[w], d)))}
               /\ Goto(w, "score")
               /\ UNCHANGED todo
          ELSE /\ todo' = [todo EXCEPT ![w] = Tail(todo[w])]
               /\ Goto(w, after_date(Tail(todo[w])))
               /\ UNCHANGED days
    /\ UNCHANGED <<parts, status, error_message, messages, locations, websites, persons,
                   places, runs, ta, run, inp, last, snap>>

\* Lines 183-229: the batches of one date, the Message rows of the scored
\* items, then the average of the Day or its deletion.
ScoreDay(w) ==
    /\ pc[w] = "score"
    /\ LET t == ta[w]
           d == Head(todo[w])
           list == message_list(inp[w], d)
           batches == Batches(list)
           texts(b) == [j \in 1..Len(batches[b]) |-> batches[b][j].text]
           results == Flatten([b \in 1..Len(batches) |->
                          analyze_sentiment_batch(texts(b), Response(inp[w], d, texts(b)))])
           dayExists == \E r \in days : r.ta = t /\ r.date = d /\ r.run = run[w]
           \* Message.objects.create fails on the foreign key when the Day
           \* row is gone; the exception is logged and the item skipped.
           stored == {j \in 1..Len(list) : results[j].ok /\ dayExists}
           appended == SelectSeq([j \in 1..Len(list) |->
                                 IF j \in stored THEN <<results[j].score>> ELSE <<>>],
                                 LAMBDA x : x # <<>>)
           day_sentiments == [j \in 1..Len(appended) |-> appended[j][1]]
           rest == Tail(todo[w])
       IN /\ messages' = messages \cup
                {[ta |-> t, date |-> d, run |-> run[w], text |-> list[j].text,
                  sentiment |-> results[j].score] : j \in stored}
          /\ last' = [last EXCEPT ![t].calls = @ + Len(batches)]
          /\ IF DayKept(day_sentiments)
             THEN \* day.save(update_fields=["sentiment"])
                  /\ days' = {IF r.ta = t /\ r.date = d /\ r.run = run[w]
                              THEN [r EXCEPT !.sentiment = avg_sentiment(day_sentiments)]
                              ELSE r : r \in days}
             ELSE \* day.delete()
                  /\ days' = {r \in days : ~(r.ta = t /\ r.date = d /\ r.run = run[w])}
          /\ todo' = [todo EXCEPT ![w] = rest]
          /\ Goto(w, after_date(rest))
    /\ UNCHANGED <<parts, status, error_message, locations, websites, persons, places,
                   runs, ta, run, inp, snap>>

\* Lines 813-883, _analyze_website_correlations. WebsiteAnalysis.objects.create
\* is not guarded: a domain that does not fit the column aborts the run.
AnalyzeWebsite(w) ==
    /\ pc[w] = "web"
    /\ LET t == ta[w]
           e == inp[w]
           dws == days_with_sentiment(t)
           accepted == {dm \in all_domains(e) :
                          calculate_domain_correlation(dws, daily_website_visits(e)).ok}
           rows == {[ta |-> t, run |-> run[w], domain |-> dm,
                     days_visited |-> calculate_domain_correlation(dws, daily_website_visits(e)).days_visited,
                     days_not_visited |-> calculate_domain_correlation(dws, daily_website_visits(e)).days_not_visited,
                     total_visits |-> calculate_domain_correlation(dws, daily_website_visits(e)).total_visits]
                       : dm \in accepted}
       IN IF dws = {} \/ all_domains(e) = {}
          THEN /\ websites' = ClearWebsiteAnalysis(t)
               /\ Goto(w, "person")
               /\ UNCHANGED locals
          ELSE IF \E dm \in accepted : ~DomainFits(dm)
          THEN /\ websites' = ClearWebsiteAnalysis(t)
               /\ Return(w)
          ELSE /\ websites' = ClearWebsiteAnalysis(t) \cup rows
               /\ Goto(w, "person")
               /\ UNCHANGED locals
    /\ UNCHANGED <<parts, status, error_message, days, messages, locations, persons,
                   places, runs, last, snap>>

\* Lines 1091-1159, _analyze_person_correlations.
AnalyzePerson(w) ==
    /\ pc[w] = "person"
    /\ LET t == ta[w]
           e == inp[w]
           dws == days_with_sentiment(t)
           corr(c) == calculate_person_correlation(dws, daily_person_interactions(e, c))
           rows == {[ta |-> t, run |-> run[w], contact_name |-> c,
                     days_interacted |-> corr(c).days_interacted,
                     days_not_interacted |-> corr(c).days_not_interacted,
                     total_messages |-> corr(c).total_messages]
                       : c \in {x \in all_contacts(e) : corr(x).ok}}
       IN IF dws = {} \/ all_contacts(e) = {}
          THEN persons' = ClearPersonAnalysis(t)
          ELSE persons' = ClearPersonAnalysis(t) \cup rows
    /\ Goto(w, "place")
    /\ UNCHANGED <<parts, status, error_message, days, messages, locations, websites,
                   places, runs, locals, last, snap>>

\* Lines 1317-1395, _analyze_place_correlations, then lines 247-249:
\* status = "completed".
AnalyzePlace(w) ==
    /\ pc[w] = "place"
    /\ LET t == ta[w]
           dws == days_with_sentiment(t)
           locs == {l \in locations : l.ta = t}
           all_location_ids == {l \in locs : daily_place_presence(l) # {}}
           corr(l) == calculate_place_correlation(dws, daily_place_presence(l), l)
           rows == {[ta |-> t, run |-> run[w], location |-> <<l.run, l.k>>,
                     days_present |-> corr(l).days_present,
                     days_not_present |-> corr(l).days_not_present,
                     total_visits |-> corr(l).total_visits]
                       : l \in {x \in all_location_ids : corr(x).ok}}
           places2 == IF dws = {} \/ locs = {} \/ all_location_ids = {}
                      THEN ClearPlaceAnalysis(t)
                      ELSE ClearPlaceAnalysis(t) \cup rows
       IN /\ places' = places2
          /\ snap' = [snap EXCEPT ![t] =
                [valid |-> TRUE, repeat |-> snap[t].valid /\ snap[t].input = inp[w],
                 input |-> inp[w],
                 result |-> Result(t, days, locations, websites, persons, places2)]]
          /\ status' = [status EXCEPT ![t] = "completed"]
    /\ runs' = runs + save_starts(FALSE, "completed")
    /\ Return(w)
    /\ UNCHANGED <<parts, error_message, days, messages, locations, websites, persons,
                   last>>

\* ----------------------------------------------------------------- Next
Step(w, I) ==
    \/ Create(w)
    \/ \E t \in TAs : RerunAnalysis(w, t)
    \/ \E t \in TAs : RerunRejected(w, t)
    \/ RespondRejected(w)
    \/ Clear(w)
    \/ \E c \in Configs : Configure(w, c)
    \/ \E e \in I : Fetch(w, e)
    \/ CreateDay(w)
    \/ ScoreDay(w)
    \/ AnalyzeWebsite(w)
    \/ AnalyzePerson(w)
    \/ AnalyzePlace(w)

\* Two request handlers run side by side (threads or processes of the web
\* server), on the reduced inputs ConcInputs.
Next == \E w \in Workers : Step(w, ConcInputs)

Spec == Init /\ [][Next]_vars

\* One request is handled at a time, on every input.
SeqNext == Step("w1", Inputs)

SpecSeq == Init /\ [][SeqNext]_vars

\* The ingestion of one date, on every date of IngestInputs.
SpecIngest == Init /\ [][IngestNext]_vars

\* One correlation, on every input of CorrInputs.
SpecCorr == Init /\ [][CorrNext]_vars

\* One clustering and its repetition in another order, on every input of
\* ClusterInputs.
SpecCluster == Init /\ [][ClusterNext]_vars

\* The presence of one place, on every Location of PresenceInputs.
SpecPresence == Init /\ [][PresenceNext]_vars

\* The stay points of one trail, on every trail of TrailInputs.
SpecTrail == Init /\ [][TrailNext]_vars

\* The same, with the loop of _detect_stay_points running on once it has
\* been entered: nothing else runs in its thread.
SpecTrailFair == Init /\ [][TrailNext]_vars /\ WF_vars(DetectStayPoints)

\* One paginated fetch, on every table of TableSizes; the loop runs on once
\* it has been entered.
SpecFetch == Init /\ [][FetchNext]_vars /\ WF_vars(FetchPage)

\* ================================================================ claims
Idle == \A w \in Workers : pc[w] = "idle"

\* A run executes perform_sentiment_analysis: it has passed the deletions.
Executing(w) == pc[w] \notin {"idle", "clear", "rejected"}

\* The runs that created the rows a TimeAnalysis owns.
RunsOf(t) ==
    {r.run : r \in {x \in days : x.ta = t}} \cup
    {r.run : r \in {x \in messages : x.ta = t}} \cup
    {r.run : r \in {x \in locations : x.ta = t}} \cup
    {r.run : r \in {x \in websites : x.ta = t}} \cup
    {r.run : r \in {x \in persons : x.ta = t}} \cup
    {r.run : r \in {x \in places : x.ta = t}}

Lifecycle == {<<"none", "pending">>, <<"pending", "processing">>,
              <<"processing", "completed">>, <<"processing", "error">>}

Restart == {<<"completed", "pending">>, <<"error", "pending">>}

ErrorHasMessage == \A t \in TAs : status[t] = "error" => error_message[t] # ""

\* C1 (as stated): the status of a TimeAnalysis only changes along
\* pending -> processing -> completed or pending -> processing -> error, a
\* status "error" never changes again, and a status "error" has a non-empty
\* error_message.
C1_StatusLifecycle ==
    /\ []ErrorHasMessage
    /\ [][\A t \in TAs : status'[t] # status[t] =>
              /\ <<status[t], status'[t]>> \in Lifecycle
              /\ status[t] # "error"]_vars

\* C1 (amended): within a run the status changes along pending -> processing
\* -> completed or pending -> processing -> error; rerun_analysis takes a
\* completed or failed TimeAnalysis back to "pending" with an empty
\* error_message; a status "error" always has a non-empty error_message.
C1_StatusLifecycleWithRerun ==
    /\ []ErrorHasMessage
    /\ [][\A t \in TAs : status'[t] # status[t] =>
              /\ <<status[t], status'[t]>> \in Lifecycle \cup Restart
              /\ (<<status[t], status'[t]>> \in Restart =>
                     error_message'[t] = "" /\ last'[t].via = "rerun")]_vars

\* C1 witness: a rerun of a TimeAnalysis has ended in "error".
C1_Witness ==
    \E t \in TAs : status[t] = "error" /\ last[t].via = "rerun"
                   /\ error_message[t] # ""

\* C2: at most one execution of perform_sentiment_analysis is in progress at
\* any time, whatever the interleaving of creations and rerun requests.
C2_OneRunAtATime == Cardinality({w \in Workers : Executing(w)}) <= 1

\* C3: when no request is being handled, no TimeAnalysis is left at
\* "processing" (a run that was aborted by an exception has ended in
\* "error"), and a failed run has left none of its rows behind.
C3_AbortEndsInError ==
    Idle => \A t \in TAs :
               /\ status[t] \notin {"pending", "processing"}
               /\ (status[t] = "error" => last[t].run \notin RunsOf(t))

\* C4: a run that ends in "error" for missing credentials has a non-empty
\* error_message, made no fetch and no oracle call, and leaves its
\* TimeAnalysis without any Day, Message, Location, WebsiteAnalysis,
\* PersonAnalysis or PlaceAnalysis row.
C4_MissingCredentials ==
    \A t \in TAs : status[t] = "error" =>
        /\ error_message[t] # ""
        /\ ~last[t].fetched
        /\ last[t].calls = 0
        /\ RunsOf(t) = {}

\* C5: after a rerun_analysis that returned with status "completed", every
\* derived row of the TimeAnalysis was created by that rerun.
C5_RerunReplacesAll ==
    \A t \in TAs : (status[t] = "completed" /\ last[t].via = "rerun") =>
        RunsOf(t) \subseteq {last[t].run}

\* C5 witness: a rerun has completed and left rows of its own, among them a
\* WebsiteAnalysis row.
C5_Witness ==
    \E t \in TAs : /\ status[t] = "completed" /\ last[t].via = "rerun"
                   /\ \E r \in websites : r.ta = t /\ r.run = last[t].run
                   /\ \E r \in days : r.ta = t

\* C6 (as stated): once a run has started, no derived row of any kind that
\* belongs to another TimeAnalysis remains in the store.
C6_ClearsEveryKind ==
    \A w \in Workers : Executing(w) =>
        \A t \in TAs \ {ta[w]} : RunsOf(t) = {}

\* C6 (amended): once a run has started, no Day, Message, Location or
\* PlaceAnalysis row of another TimeAnalysis remains in the store; the
\* WebsiteAnalysis and PersonAnalysis rows of the other TimeAnalyses are
\* left as they were.
C6_ClearsDaysMessagesLocationsPlaces ==
    /\ [](\A w \in Workers : Executing(w) =>
            \A r \in days \cup messages \cup locations \cup places : r.ta = ta[w])
    /\ [][\A w \in Workers :
            \A r \in websites \cup persons :
                (pc[w] # "idle" /\ r.ta # ta[w]) => r \in websites' \cup persons']_vars

\* C6 witness: a run has started while another TimeAnalysis owns
\* WebsiteAnalysis and PersonAnalysis rows, and its PlaceAnalysis rows are
\* gone.
C6_Witness ==
    \E w \in Workers :
        /\ pc[w] = "config"
        /\ \E r \in websites : r.ta # ta[w]
        /\ \E r \in persons : r.ta # ta[w]
        /\ places = {}
        /\ \E t \in TAs \ {ta[w]} : snap[t].result.nPlaces > 0

\* C7: a run that completes on the input of the previous completed run of
\* the same TimeAnalysis leaves the same Day, Location, WebsiteAnalysis,
\* PersonAnalysis and PlaceAnalysis rows, ids and creation stamps apart.
C7_RerunIdempotent ==
    [][\A t \in TAs :
         (status[t] # "completed" /\ status'[t] = "completed"
          /\ snap[t].valid /\ snap'[t].input = snap[t].input)
         => snap'[t].result = snap[t].result]_vars

\* C7 witness: a TimeAnalysis has completed twice in a row on the same
\* input, with rows of every kind.
C7_Witness ==
    \E t \in TAs : /\ snap[t].repeat
                   /\ status[t] = "completed"
                   /\ snap[t].result.nDays > 0
                   /\ snap[t].result.nLocations > 0
                   /\ snap[t].result.nWebsites > 0
                   /\ snap[t].result.nPersons > 0
                   /\ snap[t].result.nPlaces > 0

\* C8: there is at most one Day row per (TimeAnalysis, date), in every
\* state, also while runs are in progress.
C8_DayUnique ==
    \A r1, r2 \in days : (r1.ta = r2.ta /\ r1.date = r2.date) => r1 = r2

\* C8 witness: a run is about to create the Day of a date for which another
\* run of the same TimeAnalysis has already created one.
C8_Witness ==
    \E w, v \in Workers :
        /\ w # v /\ ta[w] = ta[v]
        /\ pc[w] = "score" /\ pc[v] = "day"
        /\ Head(todo[v]) = Head(todo[w])
        /\ \E r \in days : r.ta = ta[w] /\ r.date = Head(todo[w]) /\ r.run = run[w]

\* The dates of which the oracle scored at least one message.
Scored(e) ==
    {d \in daily_messages(e) :
        /\ ~OracleRaises(e, d)
        /\ \E j \in 1..Len(message_list(e, d)) : Answer(e, message_list(e, d)[j].text).ok}

\* C9: when the ingestion loop of a run has finished, a date has a Day row
\* exactly if one of its messages was scored and stored.
C9_DayIffScored ==
    \A w \in Workers : pc[w] \in {"web", "person", "place"} =>
        \A d \in Dates :
            /\ (\E r \in days : r.ta = ta[w] /\ r.date = d)
                   <=> (\E m \in messages : m.ta = ta[w] /\ m.date = d)
            /\ (\E r \in days : r.ta = ta[w] /\ r.date = d) <=> d \in Scored(inp[w])

\* C9 witness: the loop has finished, the only message of date 1 failed
\* scoring and date 1 has no Day, while the other dates have theirs.
C9_Witness ==
    \E w \in Workers :
        /\ pc[w] = "web"
        /\ inp[w].first \in {"fail", "down"}
        /\ ~\E r \in days : r.date = 1
        /\ \E r \in days : r.ta = ta[w] /\ r.date = 2

\* C10: the message_count of every Day of a completed run is the number of
\* Message rows stored for that Day.
C10_MessageCount ==
    \A t \in TAs : status[t] = "completed" =>
        \A r \in days : r.ta = t =>
            r.message_count =
                Cardinality({m \in messages : m.ta = t /\ m.date = r.date /\ m.run = r.run})

\* The batch a message of a date is submitted in.
BatchOf(m) == ((m - 1) \div batch_size) + 1

\* C11: when the ingestion of a date has finished and its Day exists,
\* Day.sentiment is the mean of the sentiments of exactly the Message rows
\* stored for that date: their sum divided by their number.
C11_DayIsMeanOfMessages ==
    (ingest.pc = "done" /\ ingest.day.exists) =>
        ingest.day.sentiment =
            <<SumSeq([j \in 1..Len(ingest.rows) |-> ingest.rows[j].sentiment]),
              Len(ingest.rows)>>

\* C11 witness: a date is done whose Day is kept, with an item that failed
\* scoring and two Message rows of different sentiment.
C11_Witness ==
    /\ ingest.pc = "done" /\ ingest.day.exists
    /\ Len(ingest.rows) >= 2
    /\ ingest.rows[1].sentiment # ingest.rows[2].sentiment
    /\ \E j \in 1..Len(ingest.date.reply) : ingest.date.reply[j] = Missing

\* C12: no message of a date is submitted to the oracle twice, and when the
\* batches of the date are through, a message has a Message row exactly if
\* the oracle scored it: an item without a score and the items of a batch
\* whose call raised have none, every other item of the same batch and of
\* the other batches has one.
C12_DroppedWithoutRetry ==
    /\ \A j, k \in 1..Len(ingest.submitted) :
          ingest.submitted[j] = ingest.submitted[k] => j = k
    /\ ingest.pc \in {"average", "done"} =>
          \A m \in 1..Len(ingest.date.reply) :
              /\ \E j \in 1..Len(ingest.submitted) : ingest.submitted[j] = m
              /\ Cardinality({j \in 1..Len(ingest.rows) : ingest.rows[j].text = m})
                    = IF ingest.date.reply[m] # Missing /\ BatchOf(m) \notin ingest.date.raise
                      THEN 1 ELSE 0

\* C12 witness: the call of the first batch raised, an item of the second
\* batch failed scoring, and the item after it has its Message row.
C12_Witness ==
    /\ ingest.pc = "done"
    /\ ingest.date.raise = {1}
    /\ Len(ingest.date.reply) > batch_size + 1
    /\ ingest.date.reply[batch_size + 1] = Missing
    /\ \E j \in 1..Len(ingest.rows) : ingest.rows[j].text = batch_size + 2

\* C13: after a call that did not raise, every item of ResultList has its
\* score at its own Index: positive minus negative confidence for POSITIVE,
\* NEGATIVE and NEUTRAL, half of it for MIXED, always within [-1, 1], and
\* 0.85 for POSITIVE with 0.9 and 0.05; every index without an item is None.
C13_ScoreByLabel ==
    (ingest.pc # "idle" /\ ~ingest.response.raises) =>
        LET rl == ingest.response.ResultList
        IN /\ \A k \in 1..Len(rl) :
                 LET s == ingest.results[rl[k].Index + 1]
                 IN /\ s.ok
                    /\ rl[k].Sentiment # "MIXED" =>
                          s.score = 2 * (rl[k].Positive - rl[k].Negative)
                    /\ rl[k].Sentiment = "MIXED" =>
                          2 * s.score = 2 * (rl[k].Positive - rl[k].Negative)
                    /\ -200 <= s.score /\ s.score <= 200
                    /\ (rl[k].Sentiment = "POSITIVE" /\ rl[k].Positive = 90
                        /\ rl[k].Negative = 5) => s.score = 170
           /\ \A j \in 1..Len(ingest.results) :
                 (\A k \in 1..Len(rl) : rl[k].Index # j - 1) => ingest.results[j] = None

\* C13 witness: ResultList came in reverse order, a MIXED item first, then
\* the POSITIVE item with 0.9 and 0.05 that is written at index 0.
C13_Witness ==
    /\ ingest.pc = "average"
    /\ ingest.date.reversed
    /\ Len(ingest.response.ResultList) = 2
    /\ ingest.response.ResultList[1].Sentiment = "MIXED"
    /\ ingest.response.ResultList[1].Positive # ingest.response.ResultList[1].Negative
    /\ ingest.response.ResultList[2] =
          [ok |-> TRUE, Index |-> 0, Sentiment |-> "POSITIVE", Positive |-> 90, Negative |-> 5]
    /\ ingest.results[1] = [ok |-> TRUE, score |-> 170]

\* A correlation call for an entity has returned to its caller.
Correlated == correlation.pc = "done" /\ correlation.call \in Dimensions

\* C14 (as stated): an entity gets no result when its present-day count or
\* its absent-day count is below 2, nor, in the website and the person
\* dimension, when its total occurrence count is below 3; every other entity
\* gets a result.
C14_RejectionThresholds ==
    Correlated =>
        (correlation.result.ok <=>
            ~(\/ correlation.days_present < 2
              \/ correlation.days_absent < 2
              \/ /\ correlation.call \in {"website", "person"}
                 /\ correlation.total < 3))

\* C15: every WebsiteAnalysis, PersonAnalysis and PlaceAnalysis row that a
\* correlation pass stores has a present-day count and an absent-day count
\* that add up to the number of Day rows with sentiment of its TimeAnalysis
\* at the time of the pass, and both counts are at least 2.
C15_PresentPlusAbsent ==
    [][/\ \A r \in websites' \ websites :
             /\ r.days_visited + r.days_not_visited
                   = Cardinality(days_with_sentiment(r.ta))
             /\ r.days_visited >= 2 /\ r.days_not_visited >= 2
       /\ \A r \in persons' \ persons :
             /\ r.days_interacted + r.days_not_interacted
                   = Cardinality(days_with_sentiment(r.ta))
             /\ r.days_interacted >= 2 /\ r.days_not_interacted >= 2
       /\ \A r \in places' \ places :
             /\ r.days_present + r.days_not_present
                   = Cardinality(days_with_sentiment(r.ta))
             /\ r.days_present >= 2 /\ r.days_not_present >= 2]_vars

\* C15 witness: a completed run stored a row of each kind.
C15_Witness ==
    \E t \in TAs :
        /\ status[t] = "completed"
        /\ \E r \in websites : r.ta = t
        /\ \E r \in persons : r.ta = t
        /\ \E r \in places : r.ta = t

AllEqual(s) == \A i, j \in 1..Len(s) : s[i] = s[j]

\* C16 (as stated): _calculate_pearson_correlation returns a value in
\* [-1, 1], and exactly 0 when all sentiments are equal, when the presence
\* list is constant, when the lists differ in length and when they have fewer
\* than 2 elements.
C16_PearsonRange ==
    correlation.pc \in {"return", "done"} =>
        /\ ~correlation.returned.raises
        /\ ~FLess(One, FAbs(correlation.returned.value))
        /\ (\/ Len(correlation.sentiment_scores) # Len(correlation.presence)
            \/ Len(correlation.sentiment_scores) < 2
            \/ AllEqual(correlation.sentiment_scores)
            \/ AllEqual(correlation.presence))
              => correlation.returned.value = Zero

\* The days take a positive and a negative sentiment, and the entity is
\* present on exactly the positive days.
PresentOnPositive ==
    \E a, b \in Levels :
        /\ a > 0 /\ b < 0
        /\ \A i \in 1..Len(correlation.presence) :
              correlation.sentiment_scores[i] = IF correlation.presence[i] = 1 THEN a ELSE b

\* The complement: the entity is present on exactly the negative days.
PresentOnNegative ==
    \E a, b \in Levels :
        /\ a < 0 /\ b > 0
        /\ \A i \in 1..Len(correlation.presence) :
              correlation.sentiment_scores[i] = IF correlation.presence[i] = 1 THEN a ELSE b

TenDaysAlternating ==
    correlation.sentiment_scores = [i \in 1..10 |-> IF i % 2 = 1 THEN 50 ELSE -50]

\* min(days_present, days_absent) / 10.0, the significance score of a
\* coefficient 1 or -1.
FullSignificance ==
    FDiv(FInt(Min(correlation.days_present, correlation.days_absent)), FInt(10))

\* C17 (as stated): with at least 2 days of each kind, an entity present on
\* exactly the positive days has coefficient 1 and a non-zero significance
\* score, and an entity present on exactly the negative days has coefficient
\* -1 and the same significance score.
C17_PerfectCorrelation ==
    (/\ Correlated
     /\ correlation.days_present >= 2 /\ correlation.days_absent >= 2) =>
        /\ PresentOnPositive =>
              /\ correlation.result.ok
              /\ correlation.result.correlation = One
              /\ correlation.result.significance_score = FullSignificance
              /\ correlation.result.significance_score # Zero
        /\ PresentOnNegative =>
              /\ correlation.result.ok
              /\ correlation.result.correlation = FNeg(One)
              /\ correlation.result.significance_score = FullSignificance

\* 2^-30, less than 10^-9
Tolerance == FDiv(One, FInt(Base * Base))

Near(a, b) == FLess(FAbs(FSub(a, b)), Tolerance)

\* C17 (amended): an entity that passes the rejection test of its dimension
\* and is present on exactly the positive days has a coefficient within 10^-9
\* of 1 and a significance score that is positive and within 10^-9 of
\* min(present days, absent days) / 10; present on exactly the negative days
\* it has a coefficient within 10^-9 of -1 and a significance score within
\* 10^-9 of the same value; on the ten days alternating 0.5 and -0.5 the
\* coefficients are exactly 1 and -1 and both significance scores exactly 0.5.
C17_NearPerfectCorrelation ==
    (Correlated /\ Counts(correlation.call, Len(correlation.presence),
                          {i \in 1..Len(correlation.presence) :
                              correlation.presence[i] = 1}).ok) =>
        /\ PresentOnPositive =>
              /\ correlation.result.ok
              /\ Near(correlation.result.correlation, One)
              /\ Near(correlation.result.significance_score, FullSignificance)
              /\ FLess(Zero, correlation.result.significance_score)
              /\ TenDaysAlternating =>
                    /\ correlation.result.correlation = One
                    /\ correlation.result.significance_score = Double[50]
        /\ PresentOnNegative =>
              /\ correlation.result.ok
              /\ Near(correlation.result.correlation, FNeg(One))
              /\ Near(correlation.result.significance_score, FullSignificance)
              /\ TenDaysAlternating =>
                    /\ correlation.result.correlation = FNeg(One)
                    /\ correlation.result.significance_score = Double[50]

\* C17 witness: five days with sentiment 0.3 on the three days with the
\* entity and -0.7 on the two days without it; the coefficient is not 1.
C17_Witness ==
    /\ Correlated
    /\ correlation.sentiment_scores = <<-70, 30, 30, 30, -70>>
    /\ correlation.presence = <<0, 1, 1, 1, 0>>
    /\ correlation.result.ok
    /\ correlation.result.correlation # One
    /\ Near(correlation.result.correlation, One)

ToSet(s) == {s[j] : j \in 1..Len(s)}

StayPoints == 1..Len(clustering.stay_points)

\* The clusters of the first call that have stay point i as a member.
ClustersOf(i) == {k \in 1..Len(clustering.clusters) : i \in ToSet(clustering.clusters[k])}

\* C18 (as stated): every cluster returned by _cluster_stay_points has at
\* least min_cluster_visits members, whatever min_cluster_visits is.
C18_MinimumMembers ==
    clustering.pc # "idle" =>
        \A k \in 1..Len(clustering.clusters) :
            Len(clustering.clusters[k]) >= clustering.min_cluster_visits

\* The partitions of the stay points into clusters by the two calls, as
\* sets of stay points of the first call.
FirstPartition == {ToSet(clustering.clusters[k]) : k \in 1..Len(clustering.clusters)}

SecondPartition ==
    {{clustering.order[j] : j \in ToSet(clustering.permuted[k])} :
        k \in 1..Len(clustering.permuted)}

\* C19 (as stated): the call on the stay points in another order yields the
\* same partition into clusters and the same noise points, whatever
\* min_cluster_visits is.
C19_OrderIndependent ==
    clustering.pc = "permuted" =>
        /\ FirstPartition = SecondPartition
        /\ StayPoints \ UNION FirstPartition = StayPoints \ UNION SecondPartition

\* Farther than the cluster distance threshold from every other stay point.
Isolated(i) == Neighborhood(clustering.stay_points, i) = {i}

\* Noise: neither a core point nor within eps of one.
Noise(i) ==
    \A j \in Neighborhood(clustering.stay_points, i) :
        ~IsCore(clustering.stay_points, clustering.min_cluster_visits, j)

\* C20 (as stated): every stay point is a member of at most one cluster, an
\* isolated stay point of none, and a stay point that is not noise of
\* exactly one.
C20_DisjointClusters ==
    clustering.pc # "idle" =>
        \A i \in StayPoints :
            /\ Cardinality(ClustersOf(i)) <= 1
            /\ Isolated(i) => ClustersOf(i) = {}
            /\ ~Noise(i) => Cardinality(ClustersOf(i)) = 1

\* C20 (amended): every stay point is a member of at most one cluster, a
\* stay point that is not noise of exactly one and a noise point of none;
\* an isolated stay point is a member of no cluster when min_cluster_visits
\* is at least 2, and is a cluster of its own when min_cluster_visits is 1.
C20_DisjointClustersAboveOne ==
    clustering.pc # "idle" =>
        \A i \in StayPoints :
            /\ Cardinality(ClustersOf(i)) <= 1
            /\ ~Noise(i) => Cardinality(ClustersOf(i)) = 1
            /\ Noise(i) => ClustersOf(i) = {}
            /\ (Isolated(i) /\ clustering.min_cluster_visits >= 2) => ClustersOf(i) = {}
            /\ (Isolated(i) /\ clustering.min_cluster_visits = 1) =>
                  <<i>> \in ToSet(clustering.clusters)

\* C20 witness: with min_cluster_visits 2, two clusters and between them an
\* isolated stay point that is a member of neither.
C20_Witness ==
    /\ clustering.pc = "clustered"
    /\ clustering.min_cluster_visits = 2
    /\ Len(clustering.clusters) = 2
    /\ \E i \in StayPoints : Isolated(i) /\ ClustersOf(i) = {}

\* C21 (as stated): a place is marked present on a date only if its total
\* dwell time exceeds the 60-minute threshold and the date lies between the
\* dates of its first and last visit and inside the analysis window; it is
\* marked on at most min(visit_count, days of the visit span) dates.
C21_PresenceOnlyAboveThreshold ==
    presence.pc = "done" =>
        /\ \A d \in presence.marked :
              /\ presence.location.total_time_minutes > time_threshold
              /\ presence.location.first_visit <= d
              /\ d <= presence.location.last_visit
              /\ start_date <= d /\ d <= end_date
        /\ presence.marked # {} =>
              Cardinality(presence.marked)
                 <= Min(presence.location.visit_count,
                        presence.location.last_visit - presence.location.first_visit + 1)

\* C22: a rerun_analysis request on a TimeAnalysis that is "processing" is
\* rejected and changes no Day row, no status, no error_message and starts
\* no run, neither when it is taken up nor when its error response is sent;
\* every other request that is taken up starts a run: the row becomes
\* "pending" and the run count goes up by one.
C22_RejectedWhileProcessing ==
    [][\A w \in Workers :
          /\ (pc[w] = "idle" /\ pc'[w] # "idle") =>
                IF status[ta'[w]] = "processing"
                THEN /\ pc'[w] = "rejected"
                     /\ days' = days /\ status' = status
                     /\ error_message' = error_message /\ runs' = runs
                ELSE /\ pc'[w] = "clear"
                     /\ status'[ta'[w]] = "pending"
                     /\ runs' = runs + 1
          /\ (pc[w] = "rejected" /\ pc'[w] # "rejected") =>
                /\ pc'[w] = "idle"
                /\ days' = days /\ status' = status
                /\ error_message' = error_message /\ runs' = runs]_vars

\* C22 witness: a rerun request was rejected while the other handler
\* executes the run of the same TimeAnalysis, which has a Day row.
C22_Witness ==
    \E w, v \in Workers :
        /\ pc[w] = "rejected"
        /\ Executing(v) /\ ta[v] = ta[w]
        /\ \E r \in days : r.ta = ta[w]

Fixes == 1..Len(trail.gps_points)

FromAnchor(a, m) == calculate_distance(trail.gps_points[a], trail.gps_points[m])

C24_TerminatesInOrder ==
    /\ (trail.pc = "detect") ~> (trail.pc = "done")
    /\ [][(trail.pc = "detect" /\ trail'.pc = "detect") => trail'.i > trail.i]_vars
    /\ [](\A k \in 1..Len(trail.stay_points) :
             \A l \in (k + 1)..Len(trail.stay_points) :
                 /\ trail.stay_points[k].last < trail.stay_points[l].first
                 /\ trail.stay_points[k].end_time <= trail.stay_points[l].start_time)

\* C24 witness: a trail with two StayPoints.
C24_Witness ==
    /\ trail.pc = "done"
    /\ Len(trail.stay_points) = 2
    /\ trail.stay_points[2].first = trail.stay_points[1].last + 1

\* The fixes of the window of a StayPoint.
Segment(s) == SubSeq(trail.gps_points, s.first, s.last)

\* The first non-empty value of a hint among the fixes of a segment.
FirstHint(segment_points, key) ==
    LET with == {k \in 1..Len(segment_points) : segment_points[k].hints[key] # ""}
    IN IF with = {} THEN ""
       ELSE segment_points[CHOOSE k \in with : \A l \in with : k <= l].hints[key]

FirstTagged(segment_points, a) ==
    CHOOSE k \in 1..Len(segment_points) :
        /\ segment_points[k].activity_type = a
        /\ \A l \in 1..(k - 1) : segment_points[l].activity_type # a

\* C25 (as stated): location_name, address and source of a StayPoint are
\* each the first non-empty value among all fixes of its window, and its
\* activity_type is the most frequent non-empty tag of the window, the one
\* met first among equally frequent tags.
C25_HintsOfWindow ==
    \A n \in 1..Len(trail.stay_points) :
        LET s == trail.stay_points[n]
            tags == {Segment(s)[k].activity_type : k \in 1..Len(Segment(s))} \ {""}
        IN /\ s.location_name = FirstHint(Segment(s), "location_name")
           /\ s.address = FirstHint(Segment(s), "address")
           /\ s.source = FirstHint(Segment(s), "source")
           /\ IF tags = {} THEN s.activity_type = ""
              ELSE /\ s.activity_type \in tags
                   /\ \A b \in tags \ {s.activity_type} :
                         \/ ActivityCount(Segment(s), b)
                               < ActivityCount(Segment(s), s.activity_type)
                         \/ /\ ActivityCount(Segment(s), b)
                                  = ActivityCount(Segment(s), s.activity_type)
                            /\ FirstTagged(Segment(s), s.activity_type)
                                  < FirstTagged(Segment(s), b)

\* The records with a parseable timestamp and numeric coordinates, 0 included.
Wellformed(record) ==
    /\ record.timestamp.kind = "time"
    /\ record.latitude.kind \in {"num", "zero"}
    /\ record.longitude.kind \in {"num", "zero"}

\* C27 (as stated): _convert_to_gps_points never raises, keeps exactly the
\* records with a parseable timestamp and numeric latitude and longitude
\* (coordinates equal to 0 included), and returns them sorted by timestamp,
\* records of equal timestamp in the order of the input.
C27_SkipsOnlyBadRecords ==
    trail.pc # "idle" =>
        /\ ~trail.raises
        /\ {trail.gps_points[k].record : k \in 1..Len(trail.gps_points)}
             = {k \in 1..Len(trail.gps_data) : Wellformed(trail.gps_data[k])}
        /\ \A k, l \in 1..Len(trail.gps_points) :
             k < l =>
                \/ trail.gps_points[k].timestamp < trail.gps_points[l].timestamp
                \/ /\ trail.gps_points[k].timestamp = trail.gps_points[l].timestamp
                   /\ trail.gps_points[k].record < trail.gps_points[l].record

RECURSIVE Concat(_)
Concat(lists) == IF lists = <<>> THEN <<>> ELSE Head(lists) \o Concat(Tail(lists))

\* C26: when the batches of a date of n messages are through, the oracle
\* has been called ceil(n / 25) times, each call with 1 to 25 texts, and the
\* calls taken together are the messages of the date in their order, each
\* once; before that, the calls are a prefix of the messages.
C26_CeilingOfBatches ==
    LET n == Len(ingest.date.reply)
        sent == Concat(ingest.calls)
    IN /\ \A c \in 1..Len(ingest.calls) :
            Len(ingest.calls[c]) \in 1..batch_size
       /\ Len(sent) <= n
       /\ \A j \in 1..Len(sent) : sent[j] = j
       /\ ingest.pc \in {"average", "done"} =>
            /\ Len(sent) = n
            /\ batch_size * Len(ingest.calls) >= n
            /\ batch_size * (Len(ingest.calls) - 1) < n

\* A date of 26 messages is through after two calls, the second with one text.
C26_Witness ==
    /\ ingest.pc = "done"
    /\ Len(ingest.date.reply) = batch_size + 1
    /\ Len(ingest.calls) = 2
    /\ Len(ingest.calls[2]) = 1

\* C28: a paginated fetch requests the ranges 0..999, 1000..1999, ... one
\* after the other, goes on only after a full page, is done after the first
\* page that is empty or shorter than the page size, has then collected
\* every row of the table exactly once (as many rows as the table has, and
\* every row of the table among them), and is done at some time.
C28_PagesThenDone ==
    /\ (fetch.pc = "request") ~> (fetch.pc = "done")
    /\ [](\A k \in 1..Len(fetch.requests) :
            /\ fetch.requests[k].first = (k - 1) * page_size
            /\ fetch.requests[k].last = k * page_size - 1
            /\ k < Len(fetch.requests) => fetch.requests[k].rows = page_size)
    /\ [](fetch.pc = "request" /\ fetch.requests # <<>> =>
            fetch.requests[Len(fetch.requests)].rows = page_size)
    /\ [](fetch.pc = "done" =>
            /\ fetch.requests # <<>>
            /\ fetch.requests[Len(fetch.requests)].rows < page_size
            /\ Len(fetch.all) = fetch.rows
            /\ {fetch.all[j] : j \in 1..Len(fetch.all)} = 1..fetch.rows)

\* A table of one full page and one row is fetched in two requests; a table
\* of exactly one page needs a second, empty page.
C28_Witness ==
    /\ fetch.pc = "done"
    /\ fetch.rows = page_size + 1
    /\ Len(fetch.requests) = 2
    /\ fetch.requests[2].rows = 1

\* The correlation passes of a run.
Passes == {"web", "person", "place"}

\* C29: in every step of a run, the website pass is entered from the
\* fetch or from the loop of the dates when no date is left, the person
\* pass from the website pass and the place pass from the person pass; the
\* status becomes completed only in the step that ends the place pass; and
\* a step of a correlation pass leaves the Day rows and the Location rows
\* (stored by the fetch) as they are.
C29_FixedOrder ==
    [][\A w \in Workers :
          pc'[w] # pc[w] =>
             /\ pc'[w] = "web" => pc[w] \in {"fetch", "day", "score"} /\ todo'[w] = <<>>
             /\ pc'[w] = "person" => pc[w] = "web"
             /\ pc'[w] = "place" => pc[w] = "person"
             /\ pc[w] \in Passes => days' = days /\ locations' = locations
             /\ \A t \in TAs :
                   status'[t] = "completed" /\ status[t] # "completed" =>
                      pc[w] = "place" /\ ta[w] = t /\ pc'[w] = "idle"]_vars

\* A run is in its place pass with Day rows and Location rows of its own.
C29_Witness ==
    \E w \in Workers :
        /\ pc[w] = "place"
        /\ \E r \in days : r.ta = ta[w] /\ r.run = run[w]
        /\ \E l \in locations : l.ta = ta[w] /\ l.run = run[w]

\* C30: the step that takes up a creation or an accepted rerun starts
\* exactly one execution of perform_sentiment_analysis, in the handler of
\* the request itself, which returns only when the execution is over; no
\* other step (the status saves of the pipeline among them) starts one; and
\* a TimeAnalysis is "pending" only while a handler is about to execute it.
C30_OneExecutionPerTrigger ==
    /\ [][\A w \in Workers :
              pc'[w] # pc[w] =>
                 IF pc[w] = "idle" /\ pc'[w] = "clear"
                 THEN /\ runs' = runs + 1
                      /\ run'[w] = runs'
                      /\ last'[ta'[w]].run = runs'
                 ELSE /\ runs' = runs
                      /\ pc'[w] \notin {"idle", "rejected"} => run'[w] = run[w]]_vars
    /\ [](\A t \in TAs :
            status[t] = "pending" => \E w \in Workers : pc[w] = "clear" /\ ta[w] = t)

\* A rerun has been accepted and its execution, the second of the
\* TimeAnalysis, has come to its end.
C30_Witness ==
    /\ Idle
    /\ runs = 2
    /\ \E t \in TAs :
          /\ last[t].via = "rerun" /\ last[t].run = 2
          /\ status[t] = "completed"

====
